---- MODULE Spec2Model ----
(***************************************************************************)
(* Model of the rule-based e-mail reminder engine of src/main_demo.py      *)
(* (class EmailReminderSystem) and of the batch filter of                  *)
(* src/api_service.py (scan_emails).                                       *)
(*                                                                         *)
(* Texts are TLA+ strings; `x in text` of Python is substring containment, *)
(* text[:n] is a prefix, .lower() is computed character by character.      *)
(* Dates are records [y, m, d, hh, mi] of the proleptic Gregorian          *)
(* calendar; date strings ('%Y-%m-%d') are formatted and parsed digit by   *)
(* digit.  Python's None is the string None_ where a string is expected   *)
(* and the record NoneRec where a dict or a datetime is expected; a dict   *)
(* is a record and dict.get(k) is Get(dict, k).                            *)
(***************************************************************************)
EXTENDS Integers, Sequences, FiniteSets, TLC

VARIABLES
    processed_email_ids,  \* EmailReminderSystem.processed_email_ids
    now,                  \* what datetime.now() returns
    calendar,             \* the events of the external (Google) calendar
    call,                 \* the last operation and its arguments
    ret,                  \* what the last operation returned
    issued,               \* history: the ids of the descriptors returned so far
    threads,              \* the concurrent callers of create_calendar_event
    session               \* the Flask session of each browser (api_service.py)

vars == <<processed_email_ids, now, calendar, call, ret, issued, threads, session>>

(***************************************************************************)
(* Python values                                                           *)
(***************************************************************************)
None_ == "<None>"

\* None where the value, when present, is a dict or a datetime
NoneRec == [none |-> TRUE]

Get(dict, key) == IF key \in DOMAIN dict THEN dict[key] ELSE None_

\* `x = value` followed by Rest(x): an assignment evaluates its right-hand
\* side once, and what follows reads the variable
Local(value, Rest(_)) == CHOOSE r \in { Rest(x) : x \in {value} } : TRUE

Min(a, b) == IF a <= b THEN a ELSE b

\* text[:n]
Prefix(text, n) == SubSeq(text, 1, Min(n, Len(text)))

\* needle in text
Contains(text, needle) ==
    \E i \in 0..(Len(text) - Len(needle)) :
        SubSeq(text, i + 1, i + Len(needle)) = needle

\* text.startswith(prefix)
StartsWith(text, prefix) ==
    /\ Len(prefix) <= Len(text)
    /\ SubSeq(text, 1, Len(prefix)) = prefix

UpperAlphabet == "ABCDEFGHIJKLMNOPQRSTUVWXYZ"

LowerAlphabet == "abcdefghijklmnopqrstuvwxyz"

LowerChar(c) ==
    IF \E i \in 1..26 : SubSeq(UpperAlphabet, i, i) = c
    THEN LET i == CHOOSE j \in 1..26 : SubSeq(UpperAlphabet, j, j) = c
         IN  SubSeq(LowerAlphabet, i, i)
    ELSE c

RECURSIVE Lower(_)
\* text.lower()
Lower(text) ==
    Local(text, LAMBDA t :
        IF Len(t) = 0 THEN ""
        ELSE IF Len(t) = 1 THEN LowerChar(t)
        ELSE Lower(SubSeq(t, 1, Len(t) \div 2))
             \o Lower(SubSeq(t, (Len(t) \div 2) + 1, Len(t))))

\* any(word in text for word in words)
AnyIn(words, text) == \E i \in 1..Len(words) : Contains(text, words[i])

(***************************************************************************)
(* EmailReminderSystem.__init__ : the keyword lexicon                      *)
(***************************************************************************)
job_keywords ==
    << "job", "career", "position", "role", "internship", "fellowship",
       "application", "apply", "hiring", "recruitment", "interview",
       "assessment", "coding challenge", "technical interview",
       "opportunity", "opening", "vacancy", "employment",
       "deadline", "due", "expires", "closing date", "last date",
       "application due", "submit by", "deadline:", "due date",
       "hr@", "careers@", "recruitment@", "jobs@", "hiring@",
       "noreply@company", ".edu", "university", "college" >>

\* the markers without hr@
sender_domains_NoHr == << "careers@", "recruitment@", "jobs@" >>

sender_domains == << "careers@", "hr@", "recruitment@", "jobs@" >>

(***************************************************************************)
(* EmailReminderSystem.classify_email_rule_based                           *)
(***************************************************************************)
RECURSIVE MatchKeywords(_, _, _)
\* the loop over self.job_keywords: the matched keywords, in list order
MatchKeywords(keywords, all_text, matched) ==
    IF keywords = << >> THEN matched
    ELSE Local(Lower(Head(keywords)), LAMBDA keyword :
         MatchKeywords(Tail(keywords), all_text,
                       IF Contains(all_text, keyword)
                       THEN Append(matched, Head(keywords))
                       ELSE matched))

RECURSIVE JoinComma(_)
\* ', '.join(words)
JoinComma(words) ==
    IF words = << >> THEN ""
    ELSE IF Len(words) = 1 THEN words[1]
    ELSE words[1] \o ", " \o JoinComma(Tail(words))

ScoreThreshold == 2

\* the choice with medium for an assessment
CategoryOf_AssessmentMedium(all_text) ==
    IF AnyIn(<<"interview", "interview invitation">>, all_text)
    THEN [category |-> "interview", urgency |-> "high"]
    ELSE IF AnyIn(<<"deadline", "due", "application">>, all_text)
    THEN [category |-> "application", urgency |-> "medium"]
    ELSE IF AnyIn(<<"assessment", "coding challenge", "test">>, all_text)
    THEN [category |-> "assessment", urgency |-> "medium"]
    ELSE [category |-> "job_posting", urgency |-> "medium"]

\* the category and urgency chosen when job_score >= 2
CategoryOf(all_text) ==
    IF AnyIn(<<"interview", "interview invitation">>, all_text)
    THEN [category |-> "interview", urgency |-> "high"]
    ELSE IF AnyIn(<<"deadline", "due", "application">>, all_text)
    THEN [category |-> "application", urgency |-> "medium"]
    ELSE IF AnyIn(<<"assessment", "coding challenge", "test">>, all_text)
    THEN [category |-> "assessment", urgency |-> "high"]
    ELSE [category |-> "job_posting", urgency |-> "medium"]

classify_email_rule_based(email_data) ==
    Local(Lower(email_data.sender), LAMBDA sender :
    Local(Lower(email_data.subject) \o " " \o Lower(email_data.body)
          \o " " \o sender, LAMBDA all_text :
    Local(MatchKeywords(job_keywords, all_text, << >>), LAMBDA matched_keywords :
    LET job_score == Len(matched_keywords)
        scored == IF job_score >= ScoreThreshold
                  THEN CategoryOf(all_text)
                  ELSE [category |-> "other", urgency |-> "low"]
        domain_hit == AnyIn(sender_domains, sender)
    IN  [ is_job_related   |-> (job_score >= ScoreThreshold) \/ domain_hit,
          reason           |-> IF matched_keywords # << >>
                               THEN "Matched keywords: "
                                    \o JoinComma(SubSeq(matched_keywords, 1,
                                                 Min(3, Len(matched_keywords))))
                               ELSE "No job keywords found",
          category         |-> scored.category,
          urgency          |-> IF domain_hit /\ scored.urgency = "low"
                               THEN "medium" ELSE scored.urgency,
          matched_keywords |-> matched_keywords ])))

(***************************************************************************)
(* Dates: datetime, date arithmetic, strftime and fromisoformat            *)
(***************************************************************************)
Digits == "0123456789"

IsDigit(c) == \E n \in 0..9 : SubSeq(Digits, n + 1, n + 1) = c

DigitVal(c) == CHOOSE n \in 0..9 : SubSeq(Digits, n + 1, n + 1) = c

AllDigits(s) == \A i \in 1..Len(s) : IsDigit(SubSeq(s, i, i))

RECURSIVE Num(_)
\* int(s) of a string of digits
Num(s) ==
    Local(s, LAMBDA digits :
        IF Len(digits) = 0 THEN 0
        ELSE Num(SubSeq(digits, 1, Len(digits) - 1)) * 10
             + DigitVal(SubSeq(digits, Len(digits), Len(digits))))

Pad2(n) == SubSeq(Digits, (n \div 10) + 1, (n \div 10) + 1)
           \o SubSeq(Digits, (n % 10) + 1, (n % 10) + 1)

Pad4(n) == Pad2(n \div 100) \o Pad2(n % 100)

\* the first position of character c in s, 0 when absent
IndexOf(s, c) ==
    IF \E i \in 1..Len(s) : SubSeq(s, i, i) = c
    THEN CHOOSE i \in 1..Len(s) :
            /\ SubSeq(s, i, i) = c
            /\ \A j \in 1..(i - 1) : SubSeq(s, j, j) # c
    ELSE 0

IsLeap(y) == (y % 4 = 0 /\ y % 100 # 0) \/ (y % 400 = 0)

DaysInMonth(y, m) ==
    IF m = 2 THEN (IF IsLeap(y) THEN 29 ELSE 28)
    ELSE IF m \in {4, 6, 9, 11} THEN 30 ELSE 31

ValidDate(y, m, d) ==
    /\ y \in 1..9999
    /\ m \in 1..12
    /\ d \in 1..DaysInMonth(y, m)

\* the days of the years before year y (as in date.toordinal)
DaysBeforeYear(y) ==
    (y - 1) * 365 + ((y - 1) \div 4) - ((y - 1) \div 100) + ((y - 1) \div 400)

RECURSIVE DaysBeforeMonth(_, _)
DaysBeforeMonth(y, m) ==
    IF m <= 1 THEN 0
    ELSE DaysBeforeMonth(y, m - 1) + DaysInMonth(y, m - 1)

\* date.toordinal()
Ordinal(dt) == DaysBeforeYear(dt.y) + DaysBeforeMonth(dt.y, dt.m) + dt.d

\* (a.date() - b.date()).days
DaysBetween(a, b) == Ordinal(a) - Ordinal(b)

DateOf(dt) == <<dt.y, dt.m, dt.d>>

\* the comparison of two dates with `<=` for `<`
DateBefore_OrSame(a, b) == Ordinal(a) <= Ordinal(b)

\* a.date() < b.date()
DateBefore(a, b) == Ordinal(a) < Ordinal(b)

\* the order of two datetimes: minutes since day 0
Minutes(dt) == (Ordinal(dt) * 24 + dt.hh) * 60 + dt.mi

\* dt.strftime('%Y/%m/%d')
StrfDate_Slashes(dt) == Pad4(dt.y) \o "/" \o Pad2(dt.m) \o "/" \o Pad2(dt.d)

\* dt.strftime('%Y-%m-%d')
StrfDate(dt) == Pad4(dt.y) \o "-" \o Pad2(dt.m) \o "-" \o Pad2(dt.d)

\* dt.strftime('%H:%M')
StrfTime(dt) == Pad2(dt.hh) \o ":" \o Pad2(dt.mi)

\* datetime.fromisoformat(s) of a 'YYYY-MM-DD' string; NoneRec stands for the
\* ValueError (or the TypeError of a non-string) it raises
FromIsoFormat(s) ==
    IF /\ s # None_
       /\ Len(s) = 10
       /\ SubSeq(s, 5, 5) = "-" /\ SubSeq(s, 8, 8) = "-"
       /\ AllDigits(SubSeq(s, 1, 4))
       /\ AllDigits(SubSeq(s, 6, 7))
       /\ AllDigits(SubSeq(s, 9, 10))
       /\ ValidDate(Num(SubSeq(s, 1, 4)), Num(SubSeq(s, 6, 7)), Num(SubSeq(s, 9, 10)))
    THEN [y |-> Num(SubSeq(s, 1, 4)), m |-> Num(SubSeq(s, 6, 7)),
          d |-> Num(SubSeq(s, 9, 10)), hh |-> 0, mi |-> 0]
    ELSE NoneRec

(***************************************************************************)
(* dateutil.parser.parse(date_string, fuzzy=True, default=Jan 1 of year)   *)
(* on the shapes the deadline patterns capture                             *)
(***************************************************************************)
MonthNames == << "jan", "feb", "mar", "apr", "may", "jun",
                 "jul", "aug", "sep", "oct", "nov", "dec" >>

\* the month a word names (by its first three letters), 0 when none
MonthOfWord(w) ==
    Local(Lower(Prefix(w, 3)), LAMBDA k :
        IF \E i \in 1..12 : MonthNames[i] = k
        THEN CHOOSE i \in 1..12 : MonthNames[i] = k
        ELSE 0)

\* a two-digit year resolves to the century that puts it within 50 years
ConvertYear(yy, default_year) ==
    LET guess == (default_year \div 100) * 100 + yy
    IN  IF guess >= default_year + 50 THEN guess - 100
        ELSE IF guess < default_year - 50 THEN guess + 100
        ELSE guess

MkDate(y, m, d, hh, mi) ==
    IF ValidDate(y, m, d) /\ hh \in 0..23 /\ mi \in 0..59
    THEN [y |-> y, m |-> m, d |-> d, hh |-> hh, mi |-> mi]
    ELSE NoneRec

\* 'H:MM', 'H:MM am', 'H:MM PM' -> that time on the default date
ParseClock(s, default_year) ==
    Local(IndexOf(s, ":"), LAMBDA i :
    LET h      == Num(SubSeq(s, 1, i - 1))
        mi     == Num(SubSeq(s, i + 1, i + 2))
        suffix == Lower(SubSeq(s, i + 3, Len(s)))
        hh     == IF Contains(suffix, "pm") /\ h < 12 THEN h + 12
                  ELSE IF Contains(suffix, "am") /\ h = 12 THEN 0
                  ELSE h
    IN  IF i > 1 /\ AllDigits(SubSeq(s, 1, i - 1)) /\ Len(s) >= i + 2
           /\ AllDigits(SubSeq(s, i + 1, i + 2))
        THEN MkDate(default_year, 1, 1, hh, mi)
        ELSE NoneRec)

\* 'M/D/YY', 'M/D/YYYY', 'M-D-YY' and 'YYYY-M-D'
ParseNumeric(s, sep, default_year) ==
    Local(IndexOf(s, sep), LAMBDA i :
    Local(SubSeq(s, i + 1, Len(s)), LAMBDA rest :
    Local(IndexOf(rest, sep), LAMBDA j :
    LET a    == SubSeq(s, 1, i - 1)
        b    == SubSeq(rest, 1, j - 1)
        c    == SubSeq(rest, j + 1, Len(rest))
    IN  IF i <= 1 \/ j <= 1 \/ Len(c) = 0
           \/ ~(AllDigits(a) /\ AllDigits(b) /\ AllDigits(c))
        THEN NoneRec
        ELSE IF Len(a) = 4
        THEN MkDate(Num(a), Num(b), Num(c), 0, 0)
        ELSE LET y == IF Len(c) <= 2 THEN ConvertYear(Num(c), default_year)
                      ELSE Num(c)
             IN  IF Num(a) > 12 /\ Num(b) <= 12
                 THEN MkDate(y, Num(b), Num(a), 0, 0)
                 ELSE MkDate(y, Num(a), Num(b), 0, 0))))

\* 'Month D, YYYY', 'Mon. D YYYY' and 'D Month YYYY'
ParseNamed(s, default_year) ==
    Local(IndexOf(s, " "), LAMBDA i :
    Local(SubSeq(s, i + 1, Len(s)), LAMBDA rest :
    Local(IndexOf(rest, " "), LAMBDA j :
    LET first == SubSeq(s, 1, i - 1)
        mid0  == SubSeq(rest, 1, j - 1)
        mid   == IF Len(mid0) > 0 /\ SubSeq(mid0, Len(mid0), Len(mid0)) = ","
                 THEN SubSeq(mid0, 1, Len(mid0) - 1) ELSE mid0
        last  == SubSeq(rest, j + 1, Len(rest))
    IN  IF i <= 1 \/ j <= 1 \/ ~AllDigits(last) \/ Len(last) = 0
        THEN NoneRec
        ELSE IF AllDigits(first) /\ MonthOfWord(mid) # 0
        THEN MkDate(Num(last), MonthOfWord(mid), Num(first), 0, 0)
        ELSE IF MonthOfWord(first) # 0 /\ AllDigits(mid) /\ Len(mid) > 0
        THEN MkDate(Num(last), MonthOfWord(first), Num(mid), 0, 0)
        ELSE NoneRec)))

\* NoneRec stands for the exception dateutil raises
DateutilParse(date_string, default_year) ==
    IF IndexOf(date_string, ":") # 0 THEN ParseClock(date_string, default_year)
    ELSE IF IndexOf(date_string, "/") # 0 THEN ParseNumeric(date_string, "/", default_year)
    ELSE IF IndexOf(date_string, "-") # 0 THEN ParseNumeric(date_string, "-", default_year)
    ELSE ParseNamed(date_string, default_year)

IsWordChar(c) ==
    \/ IsDigit(c)
    \/ c = "_"
    \/ \E i \in 1..26 : SubSeq(UpperAlphabet, i, i) = c \/ SubSeq(LowerAlphabet, i, i) = c

\* bool(re.search(r'\b(19|20)\d{2}\b', date_string))
HasExplicitYear(date_string) ==
    \E i \in 1..(Len(date_string) - 3) :
        /\ SubSeq(date_string, i, i + 1) \in {"19", "20"}
        /\ AllDigits(SubSeq(date_string, i + 2, i + 3))
        /\ (i = 1 \/ ~IsWordChar(SubSeq(date_string, i - 1, i - 1)))
        /\ (i + 3 = Len(date_string) \/ ~IsWordChar(SubSeq(date_string, i + 4, i + 4)))

(***************************************************************************)
(* EmailReminderSystem._parse_date_safely                                  *)
(***************************************************************************)
InferWindowDays == 45

SuspiciousDays == 180

\* parsed.replace(year=y); a ValueError (29 February) leaves parsed as it was
ReplaceYear(parsed, y) ==
    IF ValidDate(y, parsed.m, parsed.d) THEN [parsed EXCEPT !.y = y] ELSE parsed

\* the year inference of a date without an explicit year, in the current
\* year: the date to go on with, or NoneRec where the code returns None
InferYear(parsed, from_subject, clock) ==
    LET days_diff == DaysBetween(parsed, clock)
        days_past == IF days_diff < 0 THEN -days_diff ELSE 0
    IN  IF days_diff < 0 /\ days_past <= InferWindowDays
        THEN ReplaceYear(parsed, clock.y + 1)
        ELSE IF days_diff < 0 /\ days_past > InferWindowDays
        THEN NoneRec
        ELSE IF days_diff < 0 /\ from_subject
        THEN NoneRec
        ELSE IF days_diff = 0 /\ parsed.hh = 0 /\ parsed.mi = 0 /\ from_subject
        THEN NoneRec
        ELSE parsed

\* the final test: tomorrow or later, or today at a later hour
IsUpcoming(parsed, clock) ==
    \/ DateBefore(clock, parsed)
    \/ (DateOf(parsed) = DateOf(clock) /\ parsed.hh > clock.hh)

\* the warning printed for a subject date without year far in the future
IsSuspicious(date_string, parsed, from_subject, clock) ==
    /\ from_subject
    /\ ~HasExplicitYear(date_string)
    /\ DaysBetween(parsed, clock) > SuspiciousDays

parse_date_safely(date_string, from_subject, clock) ==
    Local(DateutilParse(date_string, clock.y), LAMBDA parsed0 :
    Local(IF parsed0 = NoneRec THEN NoneRec
          ELSE IF ~HasExplicitYear(date_string) /\ parsed0.y = clock.y
          THEN InferYear(parsed0, from_subject, clock)
          ELSE parsed0, LAMBDA parsed :
        IF parsed = NoneRec THEN NoneRec
        ELSE IF IsUpcoming(parsed, clock) THEN parsed
        ELSE NoneRec))

(***************************************************************************)
(* re.findall over self.deadline_patterns.  The regular-expression engine  *)
(* is the library's: PatternMatches lists, for every text of the model,    *)
(* what the twelve patterns capture in it, pattern by pattern and left to  *)
(* right (computed with Python's re from the patterns of __init__).        *)
(***************************************************************************)
PatternMatches ==
    <<
       [ text    |-> "Please submit your application by January 10, 2026 at 11:59 PM.",
         matches |-> << "January 10, 2026", "January 10, 2026", "11:59 PM" >> ],
       [ text    |-> "Interview was on 11/20/25",
         matches |-> << "11/20/25" >> ],
       [ text    |-> "Join the assessment at 5:00 pm",
         matches |-> << "5:00 pm" >> ],
       [ text    |-> "Test on 2/29/24",
         matches |-> << "2/29/24" >> ],
       [ text    |-> "Apply by 1/2/26",
         matches |-> << "1/2/26", "1/2/26" >> ],
       [ text    |-> "Interview Invitation - Jan 01, 2026",
         matches |-> << "Jan 01, 2026" >> ],
       [ text    |-> "Fwd: Interview Invitation - Jan 15, 2026",
         matches |-> << "Jan 15, 2026" >> ],
       [ text    |-> "RE: Application due 3/15/26",
         matches |-> << "3/15/26", "3/15/26" >> ],
       [ text    |-> "fw: Offer expires 2026-02-01",
         matches |-> << "2026-02-01", "26-02-01", "2026-02-01" >> ],
       [ text    |-> "Software: apply by 3/15/26",
         matches |-> << "3/15/26", "3/15/26" >> ],
       [ text    |-> "Apply by 3/15/26",
         matches |-> << "3/15/26", "3/15/26" >> ],
       [ text    |-> "Interview at 3:00 pm",
         matches |-> << "3:00 pm" >> ],
       [ text    |-> "Offer expired 2025-11-26",
         matches |-> << "25-11-26", "2025-11-26" >> ]
    >>

FindAllPatterns(text) ==
    IF \E i \in 1..Len(PatternMatches) : PatternMatches[i].text = text
    THEN LET i == CHOOSE j \in 1..Len(PatternMatches) : PatternMatches[j].text = text
         IN  PatternMatches[i].matches
    ELSE << >>

RECURSIVE Strip(_)
\* match.strip()
Strip(s) ==
    Local(s, LAMBDA t :
        IF Len(t) > 0 /\ SubSeq(t, 1, 1) = " " THEN Strip(SubSeq(t, 2, Len(t)))
        ELSE IF Len(t) > 0 /\ SubSeq(t, Len(t), Len(t)) = " "
        THEN Strip(SubSeq(t, 1, Len(t) - 1))
        ELSE t)

MinMatchLen == 3

(***************************************************************************)
(* EmailReminderSystem.extract_deadlines_rule_based                        *)
(***************************************************************************)
\* the markers without those of a reply
ForwardMarkers_FwdOnly == << "fwd:", "fw:" >>

ForwardMarkers == << "fwd:", "fw:", "re:" >>

\* is_forwarded
IsForwarded(subject) == AnyIn(ForwardMarkers, Lower(subject))

\* the dict appended to body_dates / subject_dates
Candidate(match, parsed, source) ==
    [ text     |-> match,
      parsed   |-> parsed,
      date_str |-> StrfDate(parsed),
      time_str |-> IF parsed.hh # 0 \/ parsed.mi # 0 THEN StrfTime(parsed) ELSE None_,
      source   |-> source ]

RECURSIVE SearchDates(_, _, _, _)
\* the loop over the matches of one text: the candidates that survive
SearchDates(matches, source, found, clock) ==
    IF matches = << >> THEN found
    ELSE Local(Head(matches), LAMBDA match :
         Local(parse_date_safely(match, source = "subject", clock), LAMBDA parsed :
         Local(IF Len(match) = 0 \/ Len(Strip(match)) < MinMatchLen THEN found
               ELSE IF parsed = NoneRec THEN found
               ELSE Append(found, Candidate(match, parsed, source)), LAMBDA kept :
             SearchDates(Tail(matches), source, kept, clock))))

\* has_body_date with `==` for `!=`
HasBodyDate_Today(body_dates, clock) ==
    \E i \in 1..Len(body_dates) : DateOf(body_dates[i].parsed) = DateOf(clock)

\* has_body_date
HasBodyDate(body_dates, clock) ==
    \E i \in 1..Len(body_dates) : DateOf(body_dates[i].parsed) # DateOf(clock)

\* whether the subject is searched at all
SearchesSubject(body_dates, is_forwarded, clock) ==
    ~HasBodyDate(body_dates, clock) /\ ~is_forwarded

RECURSIVE InsertSorted(_, _)
InsertSorted(sorted, x) ==
    IF sorted = << >> THEN << x >>
    ELSE IF Minutes(x.parsed) < Minutes(Head(sorted).parsed)
    THEN << x >> \o sorted
    ELSE << Head(sorted) >> \o InsertSorted(Tail(sorted), x)

RECURSIVE SortByParsed(_, _)
\* found_dates.sort(key=lambda x: x['parsed']), a stable sort
SortByParsed(list, sorted) ==
    IF list = << >> THEN sorted
    ELSE Local(InsertSorted(sorted, Head(list)), LAMBDA longer :
             SortByParsed(Tail(list), longer))

\* best_deadline without the preference for the body: the first of the list
SelectBest_First(found_dates) == IF found_dates = << >> THEN NoneRec ELSE found_dates[1]

\* best_deadline: the first body candidate of the sorted list, else the first
SelectBest(found_dates) ==
    IF found_dates = << >> THEN NoneRec
    ELSE IF \E i \in 1..Len(found_dates) : found_dates[i].source = "body"
    THEN found_dates[CHOOSE i \in 1..Len(found_dates) :
                        /\ found_dates[i].source = "body"
                        /\ \A j \in 1..(i - 1) : found_dates[j].source # "body"]
    ELSE found_dates[1]

DeadlineTypeOf(lower_text) ==
    IF AnyIn(<<"application", "apply">>, lower_text) THEN "application"
    ELSE IF AnyIn(<<"interview", "meeting">>, lower_text) THEN "interview"
    ELSE IF AnyIn(<<"assessment", "test", "challenge">>, lower_text) THEN "assessment"
    ELSE IF AnyIn(<<"response", "reply", "confirm">>, lower_text) THEN "response"
    ELSE IF AnyIn(<<"event", "conference", "fair">>, lower_text) THEN "event"
    ELSE "other"

RECURSIVE Texts(_)
Texts(dates) ==
    IF dates = << >> THEN << >> ELSE << Head(dates).text >> \o Texts(Tail(dates))

RECURSIVE AppendNew(_, _)
\* `if match not in deadline_texts: deadline_texts.append(match)`
AppendNew(texts, more) ==
    IF more = << >> THEN texts
    ELSE Local(IF \E i \in 1..Len(texts) : texts[i] = Head(more)
               THEN texts ELSE Append(texts, Head(more)), LAMBDA longer :
             AppendNew(longer, Tail(more)))

\* the local variables of extract_deadlines_rule_based at its return
ExtractLocals(email_data, clock) ==
    LET subject == email_data.subject
        body    == email_data.body
    IN  Local(IsForwarded(subject), LAMBDA is_forwarded :
        Local(SearchDates(FindAllPatterns(body), "body", << >>, clock),
              LAMBDA body_dates :
        Local(SearchesSubject(body_dates, is_forwarded, clock), LAMBDA searches :
        Local(IF searches
              THEN SearchDates(FindAllPatterns(subject), "subject", << >>, clock)
              ELSE << >>, LAMBDA subject_dates :
        Local(SortByParsed(body_dates \o subject_dates, << >>), LAMBDA found_dates :
          [ all_text         |-> Lower(subject \o " " \o body),
            is_forwarded     |-> is_forwarded,
            body_dates       |-> body_dates,
            subject_searched |-> searches,
            subject_dates    |-> subject_dates,
            deadline_texts   |-> AppendNew(Texts(body_dates), Texts(subject_dates)),
            found_dates      |-> found_dates,
            best_deadline    |-> SelectBest(found_dates) ])))))

\* the dict with the type computed whether or not a deadline was selected
DeadlineInfo_TypeAlways(l) ==
    Local(DeadlineTypeOf(l.all_text), LAMBDA deadline_type :
    LET best_deadline == l.best_deadline
    IN  [ has_deadline   |-> best_deadline # NoneRec,
          deadline_date  |-> IF best_deadline # NoneRec THEN best_deadline.date_str ELSE None_,
          deadline_time  |-> IF best_deadline # NoneRec THEN best_deadline.time_str ELSE None_,
          timezone       |-> None_,
          deadline_text  |-> IF best_deadline # NoneRec THEN best_deadline.text
                             ELSE IF l.deadline_texts # << >> THEN l.deadline_texts[1]
                             ELSE None_,
          deadline_type  |-> deadline_type,
          description    |-> IF best_deadline # NoneRec
                             THEN "Deadline for " \o deadline_type ELSE None_,
          all_found_dates    |-> l.found_dates,
          all_deadline_texts |-> l.deadline_texts ])

\* the dict extract_deadlines_rule_based returns, from its local variables
DeadlineInfo(l) ==
    Local(IF l.best_deadline # NoneRec THEN DeadlineTypeOf(l.all_text)
          ELSE "other", LAMBDA deadline_type :
    LET best_deadline == l.best_deadline
    IN  [ has_deadline   |-> best_deadline # NoneRec,
          deadline_date  |-> IF best_deadline # NoneRec THEN best_deadline.date_str ELSE None_,
          deadline_time  |-> IF best_deadline # NoneRec THEN best_deadline.time_str ELSE None_,
          timezone       |-> None_,
          deadline_text  |-> IF best_deadline # NoneRec THEN best_deadline.text
                             ELSE IF l.deadline_texts # << >> THEN l.deadline_texts[1]
                             ELSE None_,
          deadline_type  |-> deadline_type,
          description    |-> IF best_deadline # NoneRec
                             THEN "Deadline for " \o deadline_type ELSE None_,
          all_found_dates    |-> l.found_dates,
          all_deadline_texts |-> l.deadline_texts ])

extract_deadlines_rule_based(email_data, clock) ==
    Local(ExtractLocals(email_data, clock), LAMBDA l : DeadlineInfo(l))

(***************************************************************************)
(* EmailReminderSystem.check_event_exists                                  *)
(*                                                                         *)
(* calendar_service is NoneRec (no service) or the answer the service      *)
(* gives to events().list(...).execute() of this call:                     *)
(* [raises |-> BOOLEAN, items |-> sequence of events].  An event is a      *)
(* record with date, summary, description and, when its private extended   *)
(* properties carry one, email_id.                                         *)
(***************************************************************************)
\* `x is not None` for the truth value of x
Truthy_NotNone(x) == x # None_

\* `if x:` of a string or None
Truthy(x) == x # None_ /\ x # ""

SubjectPrefixLen == 30

\* `extended_props.get('email_id') == email_id`
EventMatchesId(event, email_id) == Get(event, "email_id") = email_id

\* `subject[:30] in event_summary or subject[:30] in event_desc`
EventMatchesSubject(event, subject) ==
    \/ Contains(event.summary, Prefix(subject, SubjectPrefixLen))
    \/ Contains(event.description, Prefix(subject, SubjectPrefixLen))

\* the loop that looks at the first event only
ScanEvents_FirstOnly(events, email_id, subject) ==
    IF events = << >> THEN "none"
    ELSE IF EventMatchesId(Head(events), email_id)
    THEN (IF email_id = None_ THEN "raise" ELSE "dup")
    ELSE IF EventMatchesSubject(Head(events), subject) THEN "dup"
    ELSE "none"

RECURSIVE ScanEvents(_, _, _)
\* the loop over the events: "dup" at the first match, "none" when there is
\* none, "raise" when the print of the id match subscripts None
ScanEvents(events, email_id, subject) ==
    IF events = << >> THEN "none"
    ELSE IF EventMatchesId(Head(events), email_id)
    THEN (IF email_id = None_ THEN "raise" ELSE "dup")
    ELSE IF EventMatchesSubject(Head(events), subject) THEN "dup"
    ELSE ScanEvents(Tail(events), email_id, subject)

\* the id test left out: no id counts as processed
AlreadyProcessed_Never(email_id, processed) == FALSE

\* the id test: the id is set and was processed before
AlreadyProcessed(email_id, processed) ==
    Truthy(email_id) /\ email_id \in processed

\* the date test with `<` for `<=`
NotInFuture_Strict(deadline_dt, clock) == DateBefore(deadline_dt, clock)

\* the date test: the deadline is today or earlier
NotInFuture(deadline_dt, clock) == ~DateBefore(clock, deadline_dt)

\* check_event_exists with `return True` in the except clause
check_event_exists_FailClosed(calendar_service, email_data, deadline_date, processed, clock) ==
    LET email_id    == Get(email_data, "id")
        deadline_dt == FromIsoFormat(deadline_date)
    IN  IF AlreadyProcessed(email_id, processed)
        THEN [exists |-> TRUE, looked_up |-> FALSE]
        ELSE IF deadline_dt = NoneRec
        THEN [exists |-> TRUE, looked_up |-> FALSE]
        ELSE IF NotInFuture(deadline_dt, clock)
        THEN [exists |-> TRUE, looked_up |-> FALSE]
        ELSE IF calendar_service = NoneRec
        THEN [exists |-> FALSE, looked_up |-> FALSE]
        ELSE IF calendar_service.raises
        THEN [exists |-> TRUE, looked_up |-> TRUE]
        ELSE [exists |-> ScanEvents(calendar_service.items, email_id,
                                    email_data.subject) = "dup",
              looked_up |-> TRUE]

\* [exists |-> what is returned, looked_up |-> whether the service was called]
check_event_exists(calendar_service, email_data, deadline_date, processed, clock) ==
    LET email_id    == Get(email_data, "id")
        deadline_dt == FromIsoFormat(deadline_date)
    IN  IF AlreadyProcessed(email_id, processed)
        THEN [exists |-> TRUE, looked_up |-> FALSE]
        ELSE IF deadline_dt = NoneRec
        THEN [exists |-> FALSE, looked_up |-> FALSE]
        ELSE IF NotInFuture(deadline_dt, clock)
        THEN [exists |-> TRUE, looked_up |-> FALSE]
        ELSE IF calendar_service = NoneRec
        THEN [exists |-> FALSE, looked_up |-> FALSE]
        ELSE IF calendar_service.raises
        THEN [exists |-> FALSE, looked_up |-> TRUE]
        ELSE [exists |-> ScanEvents(calendar_service.items, email_id,
                                    email_data.subject) = "dup",
              looked_up |-> TRUE]

(***************************************************************************)
(* EmailReminderSystem.create_calendar_event                               *)
(***************************************************************************)
\* dict.get(key, default)
GetOr(dict, key, default) == IF key \in DOMAIN dict THEN dict[key] ELSE default

\* str(x) in an f-string
Str(x) == IF x = None_ THEN "None" ELSE x

UpperChar(c) ==
    IF \E i \in 1..26 : SubSeq(LowerAlphabet, i, i) = c
    THEN LET i == CHOOSE j \in 1..26 : SubSeq(LowerAlphabet, j, j) = c
         IN  SubSeq(UpperAlphabet, i, i)
    ELSE c

RECURSIVE Upper(_)
\* text.upper()
Upper(text) ==
    Local(text, LAMBDA t :
        IF Len(t) = 0 THEN ""
        ELSE IF Len(t) = 1 THEN UpperChar(t)
        ELSE Upper(SubSeq(t, 1, Len(t) \div 2))
             \o Upper(SubSeq(t, (Len(t) \div 2) + 1, Len(t))))

\* the default taken whatever x is
OrElse_Default(x, default) == default

\* x or default
OrElse(x, default) == IF Truthy(x) THEN x ELSE default

DefaultTimezone == "Asia/Kolkata"

Rejected(event_date) ==
    [ status  |-> "rejected",
      reason  |-> "past_deadline",
      message |-> "Deadline " \o event_date \o " has passed or is today" ]

Duplicate ==
    [ status  |-> "duplicate",
      message |-> "Event already exists or email already processed" ]

\* the reminder overrides
Reminders(deadline_type) ==
    << [method |-> "email", minutes |-> 1440],
       [method |-> "popup", minutes |-> 60] >>
    \o (IF deadline_type \in {"application", "assessment"}
        THEN << [method |-> "email", minutes |-> 10080] >>
        ELSE << >>)

\* the event dict returned for a novel deadline
Descriptor(email_data, deadline_info, event_date, clock) ==
    LET subject       == GetOr(email_data, "subject", "Job Deadline Reminder")
        deadline_type == GetOr(deadline_info, "deadline_type", "deadline")
        event_time    == OrElse(Get(deadline_info, "deadline_time"), "23:59")
        deadline_str  == event_date \o "T" \o event_time \o ":00"
    IN  [ summary     |-> IF deadline_type # "other"
                          THEN Upper(deadline_type) \o " DEADLINE: " \o subject
                          ELSE "DEADLINE: " \o subject,
          description |-> "Job Deadline Reminder\n\nSubject: "
                          \o GetOr(email_data, "subject", "")
                          \o "\nFrom: " \o GetOr(email_data, "sender", "")
                          \o "\nDeadline Type: " \o deadline_type
                          \o "\nDeadline Date: " \o event_date
                          \o "\n\nDetails: "
                          \o Str(GetOr(deadline_info, "deadline_text",
                                       "See original email for details"))
                          \o "\nAction Required: "
                          \o Str(GetOr(deadline_info, "description",
                                       "Review and respond as needed"))
                          \o "\n\nReceived: " \o GetOr(email_data, "date", ""),
          start       |-> [dateTime |-> deadline_str, timeZone |-> DefaultTimezone],
          end         |-> [dateTime |-> deadline_str, timeZone |-> DefaultTimezone],
          reminders   |-> [useDefault |-> FALSE, overrides |-> Reminders(deadline_type)],
          colorId     |-> "11",
          source      |-> [title |-> "Email Reminder System",
                           url   |-> "mailto:" \o GetOr(email_data, "sender", "")],
          extendedProperties |->
              [private |-> [ email_id        |-> GetOr(email_data, "id", ""),
                             deadline_type   |-> deadline_type,
                             created_by      |-> "email_reminder_system",
                             original_sender |-> GetOr(email_data, "sender", ""),
                             processed_date  |-> StrfDate(clock) \o " "
                                                 \o StrfTime(clock) ]] ]

\* the add left out
MarkProcessed_Forget(processed, email_id) == processed

\* the set assigned anew instead of added to
MarkProcessed_Replace(processed, email_id) == IF Truthy(email_id) THEN { email_id } ELSE processed

\* the ids after `if email_id: self.processed_email_ids.add(email_id)`
MarkProcessed(processed, email_id) ==
    IF Truthy(email_id) THEN processed \cup {email_id} ELSE processed

\* create_calendar_event with the id added before the duplicate check
create_calendar_event_MarkEarly(email_data, deadline_info, calendar_service, processed, clock) ==
    LET event_date  == Get(deadline_info, "deadline_date")
        deadline_dt == FromIsoFormat(event_date)
        nothing     == [event |-> NoneRec, processed |-> processed, looked_up |-> FALSE]
    IN  IF ~GetOr(deadline_info, "has_deadline", FALSE) THEN nothing
        ELSE IF ~Truthy(event_date) THEN nothing
        ELSE IF deadline_dt = NoneRec THEN nothing
        ELSE IF NotInFuture(deadline_dt, clock)
        THEN [event |-> Rejected(event_date), processed |-> processed,
              looked_up |-> FALSE]
        ELSE Local(check_event_exists(calendar_service, email_data,
                                      event_date, processed, clock), LAMBDA check :
                 IF check.exists
                 THEN [event |-> Duplicate,
                       processed |-> MarkProcessed(processed, Get(email_data, "id")),
                       looked_up |-> check.looked_up]
                 ELSE [event |-> Descriptor(email_data, deadline_info, event_date, clock),
                       processed |-> MarkProcessed(processed, Get(email_data, "id")),
                       looked_up |-> check.looked_up])

\* [event |-> what is returned, processed |-> processed_email_ids afterwards,
\*  looked_up |-> whether the calendar service was called]
create_calendar_event(email_data, deadline_info, calendar_service, processed, clock) ==
    LET event_date  == Get(deadline_info, "deadline_date")
        deadline_dt == FromIsoFormat(event_date)
        nothing     == [event |-> NoneRec, processed |-> processed, looked_up |-> FALSE]
    IN  IF ~GetOr(deadline_info, "has_deadline", FALSE) THEN nothing
        ELSE IF ~Truthy(event_date) THEN nothing
        ELSE IF deadline_dt = NoneRec THEN nothing
        ELSE IF NotInFuture(deadline_dt, clock)
        THEN [event |-> Rejected(event_date), processed |-> processed,
              looked_up |-> FALSE]
        ELSE Local(check_event_exists(calendar_service, email_data,
                                      event_date, processed, clock), LAMBDA check :
                 IF check.exists
                 THEN [event |-> Duplicate, processed |-> processed,
                       looked_up |-> check.looked_up]
                 ELSE [event |-> Descriptor(email_data, deadline_info, event_date, clock),
                       processed |-> MarkProcessed(processed, Get(email_data, "id")),
                       looked_up |-> check.looked_up])

(***************************************************************************)
(* The messages and the days of the specifications with state, and the     *)
(* two pure stages of the pipeline on them, as tables (`@@ << >>` leaves a  *)
(* function as it is and has it computed once, not at each application)    *)
(***************************************************************************)
Clock(y, m, d, hh, mi) == [y |-> y, m |-> m, d |-> d, hh |-> hh, mi |-> mi]

ReceivedAt == "2025-12-30T09:00:00"

Emails ==
    { [ id |-> "e1", date |-> ReceivedAt,
        subject |-> "Software Engineer Position - Application Deadline Dec 15",
        body    |-> "Please submit your application by January 10, 2026 at 11:59 PM.",
        sender  |-> "careers@techcorp.com" ],
      [ id |-> "e2", date |-> ReceivedAt,
        subject |-> "Fwd: Interview Invitation - Jan 15, 2026",
        body    |-> "Join the assessment at 5:00 pm",
        sender  |-> "jobs@startup.io" ],
      [ date |-> ReceivedAt,
        subject |-> "Apply by 3/15/26", body |-> "", sender |-> "hr@company.com" ],
      [ id |-> "", date |-> ReceivedAt,
        subject |-> "Interview Invitation - Jan 01, 2026",
        body    |-> "We look forward to meeting you.",
        sender  |-> "hr@company.com" ],
      [ id |-> "e2", date |-> ReceivedAt,
        subject |-> "Lunch?", body |-> "Apply by 1/2/26",
        sender  |-> "bob@example.com" ] }

\* the day after
NextDay(clock) ==
    IF clock.d < DaysInMonth(clock.y, clock.m) THEN [clock EXCEPT !.d = @ + 1]
    ELSE IF clock.m < 12 THEN [clock EXCEPT !.m = @ + 1, !.d = 1]
    ELSE [clock EXCEPT !.y = @ + 1, !.m = 1, !.d = 1]

RECURSIVE AddDays(_, _)
AddDays(clock, n) == IF n = 0 THEN clock ELSE AddDays(NextDay(clock), n - 1)

SpecStart == Clock(2025, 12, 31, 14, 10)

MaxDays == 1

SpecClocks == { AddDays(SpecStart, n) : n \in 0..MaxDays }

Classified == [e \in Emails |-> classify_email_rule_based(e)] @@ << >>

Extracted ==
    [e \in Emails, c \in SpecClocks |-> extract_deadlines_rule_based(e, c)] @@ << >>

(***************************************************************************)
(* EmailReminderSystem.analyze_email                                       *)
(***************************************************************************)
\* [result |-> the dict returned, processed |-> processed_email_ids afterwards,
\*  looked_up |-> whether the calendar service was called]
analyze_email(email_data, calendar_service, processed, clock) ==
    Local(Classified[email_data], LAMBDA classification :
    Local(Extracted[email_data, clock], LAMBDA deadline_info :
    LET created == create_calendar_event(email_data, deadline_info,
                                         calendar_service, processed, clock)
        result0 == [ email_data     |-> email_data,
                     classification |-> classification,
                     deadline_info  |-> NoneRec,
                     calendar_event |-> NoneRec ]
    IN  IF ~GetOr(classification, "is_job_related", FALSE)
        THEN [result |-> result0, processed |-> processed, looked_up |-> FALSE]
        ELSE IF ~GetOr(deadline_info, "has_deadline", FALSE)
        THEN [result |-> [result0 EXCEPT !.deadline_info = deadline_info],
              processed |-> processed, looked_up |-> FALSE]
        ELSE Local(created, LAMBDA done :
             [result |-> [result0 EXCEPT !.deadline_info = deadline_info,
                                         !.calendar_event = done.event],
              processed |-> done.processed, looked_up |-> done.looked_up])))

(***************************************************************************)
(* The state of a system that has not been used, for the specifications    *)
(* that exercise one pure method                                           *)
(***************************************************************************)
NoThreads == << >>

\* the browsers that talk to the service, each with its session cookie
Browsers == {"b1", "b2"}

\* a session is a dict; every browser starts with an empty one
NoSessions == [b \in Browsers |-> << >>]

\* the ids of the messages that have one
Ids == {"e1", "e2"}

NoneIssued == [k \in Ids |-> 0]

Idle ==
    /\ processed_email_ids = {}
    /\ calendar = {}
    /\ issued = NoneIssued
    /\ threads = NoThreads
    /\ session = NoSessions

(***************************************************************************)
(* SpecClassify: classify_email_rule_based applied to one message          *)
(***************************************************************************)
ClassifySubjects ==
    { "", "Lunch?", "Job opening", "Coding", "INTERVIEW Invitation" }

ClassifyBodies ==
    { "", "See you at noon", "challenge accepted", "Your application is due",
      "Take the test for the role" }

ClassifySenders ==
    { "bob@example.com", "hr@company.com", "Careers@TechCorp.com",
      "alice@mit.edu", "HIRING@startup.io" }

ClassifyInputs ==
    { [subject |-> s, body |-> b, sender |-> f] :
        s \in ClassifySubjects, b \in ClassifyBodies, f \in ClassifySenders }

ClassifyClock == Clock(2025, 12, 1, 14, 10)

InitClassify ==
    /\ Idle
    /\ now = ClassifyClock
    /\ \E e \in ClassifyInputs : call = [op |-> "input", email_data |-> e]
    /\ ret = NoneRec

Classify ==
    /\ call.op = "input"
    /\ call' = [call EXCEPT !.op = "classify_email_rule_based"]
    /\ ret' = classify_email_rule_based(call.email_data)
    /\ UNCHANGED <<processed_email_ids, now, calendar, issued, threads, session>>

NextClassify == Classify

SpecClassify == InitClassify /\ [][NextClassify]_vars

(***************************************************************************)
(* SpecExtract: extract_deadlines_rule_based applied to one message at one *)
(* time of the clock                                                       *)
(***************************************************************************)
ExtractSubjects ==
    { "Lunch?",
      "Software Engineer Position - Application Deadline Dec 15",
      "Interview Invitation - Jan 01, 2026",
      "Fwd: Interview Invitation - Jan 15, 2026",
      "RE: Application due 3/15/26",
      "fw: Offer expires 2026-02-01",
      "Software: apply by 3/15/26",
      "Apply by 3/15/26",
      "Interview at 3:00 pm" }

ExtractBodies ==
    { "",
      "We look forward to meeting you.",
      "Please submit your application by January 10, 2026 at 11:59 PM.",
      "Interview was on 11/20/25",
      "Join the assessment at 5:00 pm",
      "Test on 2/29/24",
      "Apply by 1/2/26",
      "Offer expired 2025-11-26" }

ExtractInputs ==
    { [subject |-> s, body |-> b, sender |-> "hr@company.com"] :
        s \in ExtractSubjects, b \in ExtractBodies }

ExtractClocks ==
    { Clock(2024, 3, 10, 10, 0), Clock(2025, 12, 1, 14, 10),
      Clock(2026, 1, 1, 14, 10), Clock(2026, 1, 20, 9, 0) }

InitExtract ==
    /\ Idle
    /\ now \in ExtractClocks
    /\ \E e \in ExtractInputs : call = [op |-> "input", email_data |-> e]
    /\ ret = NoneRec

Extract ==
    /\ call.op = "input"
    /\ \E l \in { ExtractLocals(call.email_data, now) } :
           /\ call' = [op |-> "extract_deadlines_rule_based",
                       email_data |-> call.email_data,
                       is_forwarded |-> l.is_forwarded,
                       subject_searched |-> l.subject_searched,
                       best_deadline |-> l.best_deadline]
           /\ ret' = DeadlineInfo(l)
    /\ UNCHANGED <<processed_email_ids, now, calendar, issued, threads, session>>

NextExtract == Extract

SpecExtract == InitExtract /\ [][NextExtract]_vars

(***************************************************************************)
(* Spec: one EmailReminderSystem used by one caller at a time, next to a   *)
(* calendar that other clients change                                      *)
(***************************************************************************)
\* the deadline_info dicts of the direct calls of create_calendar_event
Info(has_deadline, deadline_date, deadline_time, deadline_type) ==
    [ has_deadline  |-> has_deadline,
      deadline_date |-> deadline_date,
      deadline_time |-> deadline_time,
      deadline_type |-> deadline_type,
      deadline_text |-> "see the mail",
      description   |-> "Deadline for " \o deadline_type ]

DeadlineInfos ==
    { Info(TRUE, "2026-01-10", None_, "application"),
      Info(TRUE, "2026-03-15", "17:00", "interview"),
      Info(TRUE, "2025-12-31", None_, "application"),
      Info(TRUE, "tomorrow", None_, "other"),
      Info(TRUE, None_, None_, "other"),
      Info(FALSE, "2026-01-10", None_, "application") }

\* the events other clients of the calendar may add and remove
ForeignEvents ==
    { [ date |-> "2026-01-10", email_id |-> "e1",
        summary |-> "APPLICATION DEADLINE: Software Engineer Position - Application Deadline Dec 15",
        description |-> "Job Deadline Reminder" ],
      [ date |-> "2026-03-15",
        summary |-> "Job Deadline - Apply by 3/15/26 (added by hand)",
        description |-> "" ] }

\* the sequences that list the events of a set, each once
RECURSIVE Listings(_)
Listings(events) ==
    IF events = {} THEN { << >> }
    ELSE UNION { { << e >> \o rest : rest \in Listings(events \ {e}) } : e \in events }

\* what a calendar service may answer to the query for one day: an error, or
\* some of the events of that day in some order
Answers(deadline_date) ==
    LET that_day == { e \in calendar : e.date = deadline_date }
    IN  { [raises |-> TRUE, items |-> << >>] }
        \cup { [raises |-> FALSE, items |-> items] :
                 items \in UNION { Listings(some) : some \in SUBSET that_day } }

\* the calendar_service argument: None, or a service with one of its answers
Services(deadline_date) == { NoneRec } \cup Answers(deadline_date)

Init ==
    /\ processed_email_ids = {}
    /\ now = SpecStart
    /\ calendar = {}
    /\ call = [op |-> "init"]
    /\ ret = NoneRec
    /\ issued = NoneIssued
    /\ threads = NoThreads
    /\ session = NoSessions

\* the history of descriptors: one more for the id of a returned descriptor
Count(event, email_data) ==
    IF event # NoneRec /\ "status" \notin DOMAIN event
             /\ Get(email_data, "id") \in Ids
    THEN [issued EXCEPT ![Get(email_data, "id")] = Min(@ + 1, 2)]
    ELSE issued

\* a direct call of create_calendar_event
CreateCalendarEvent ==
    \E email_data \in Emails, deadline_info \in DeadlineInfos :
      \E calendar_service \in Services(deadline_info.deadline_date) :
        \E c \in { create_calendar_event(email_data, deadline_info, calendar_service,
                                          processed_email_ids, now) } :
            /\ processed_email_ids' = c.processed
            /\ ret' = c.event
            /\ call' = [ op |-> "create_calendar_event", email_data |-> email_data,
                         deadline_info |-> deadline_info,
                         calendar_service |-> calendar_service,
                         processed_before |-> processed_email_ids,
                         looked_up |-> c.looked_up ]
            /\ issued' = Count(c.event, email_data)
            /\ UNCHANGED <<now, calendar, threads, session>>

\* a call of analyze_email
AnalyzeEmail ==
    \E email_data \in Emails :
      \E calendar_service \in
            Services(Extracted[email_data, now].deadline_date) :
        \E a \in { analyze_email(email_data, calendar_service,
                                  processed_email_ids, now) } :
            /\ processed_email_ids' = a.processed
            /\ ret' = a.result
            /\ call' = [ op |-> "analyze_email", email_data |-> email_data,
                         calendar_service |-> calendar_service,
                         processed_before |-> processed_email_ids,
                         looked_up |-> a.looked_up ]
            /\ issued' = Count(a.result.calendar_event, email_data)
            /\ UNCHANGED <<now, calendar, threads, session>>

\* midnight passes
Tick ==
    /\ now \in SpecClocks
    /\ NextDay(now) \in SpecClocks
    /\ now' = NextDay(now)
    /\ call' = [op |-> "tick"]
    /\ ret' = NoneRec
    /\ UNCHANGED <<processed_email_ids, calendar, issued, threads, session>>

\* another client adds an event to the calendar or removes one
CalendarChange ==
    /\ \E e \in ForeignEvents :
          calendar' = IF e \in calendar THEN calendar \ {e} ELSE calendar \cup {e}
    /\ call' = [op |-> "calendar"]
    /\ ret' = NoneRec
    /\ UNCHANGED <<processed_email_ids, now, issued, threads, session>>

Next == CreateCalendarEvent \/ AnalyzeEmail \/ Tick \/ CalendarChange

Spec == Init /\ [][Next]_vars

(***************************************************************************)
(* SpecScan: api_service.scan_emails on the one global system: a batch is  *)
(* analysed message by message, then filtered for the response             *)
(***************************************************************************)
MaxBatch == 2

ScanPool ==
    { e \in Emails : e.subject \in { "Software Engineer Position - Application Deadline Dec 15",
                                     "Fwd: Interview Invitation - Jan 15, 2026",
                                     "Apply by 3/15/26",
                                     "Lunch?" } }

RECURSIVE Batches(_)
\* the sequences of at most n messages
Batches(n) ==
    IF n = 0 THEN { << >> }
    ELSE Batches(n - 1)
         \cup { Append(b, e) : b \in { x \in Batches(n - 1) : Len(x) = n - 1 },
                               e \in ScanPool }

SearchWindowDays == 365

\* `event.get('summary', '').lower().strip()`
EventTitle == [e \in ForeignEvents |-> Lower(Strip(e.summary))] @@ << >>

\* the events the query q='Job Deadline' finds
FoundBySearch ==
    [e \in ForeignEvents |->
        Contains(Lower(e.summary \o " " \o e.description), "job deadline")] @@ << >>

\* _get_existing_calendar_events with credentials: the normalised titles of
\* the events of the next year that the search for 'Job Deadline' finds
CalendarTitles(clock) ==
    { EventTitle[e] :
        e \in { x \in calendar :
                  /\ FoundBySearch[x]
                  /\ DaysBetween(FromIsoFormat(x.date), clock) \in 0..SearchWindowDays
                  /\ x.summary # "" } }

\* existing_titles: the titles found, or set() without credentials
ExistingTitles(clock) == { {}, CalendarTitles(clock) }

\* _is_future_deadline
is_future_deadline(deadline_date, clock) ==
    LET deadline == FromIsoFormat(deadline_date)
    IN  IF ~Truthy(deadline_date) THEN FALSE
        ELSE IF deadline = NoneRec THEN FALSE
        ELSE ~DateBefore(deadline, clock)

\* `email.get('subject', '').lower().strip()`
SubjectKey == [e \in Emails |-> Lower(Strip(GetOr(e, "subject", "")))] @@ << >>

\* `subject in existing or existing in subject`, for the titles the calendar
\* can hold
SubjectInTitle ==
    [e \in Emails, existing \in { EventTitle[x] : x \in ForeignEvents } |->
        \/ Contains(existing, SubjectKey[e])
        \/ Contains(SubjectKey[e], existing)] @@ << >>

\* `any(subject in existing or existing in subject for existing in existing_titles)`
InCalendarTitles(email_data, existing_titles) ==
    \E existing \in existing_titles : SubjectInTitle[email_data, existing]

\* the filter without the test of the status
PassedOn_KeepsDuplicates(result, existing_titles, clock) ==
    /\ result.deadline_info # NoneRec
    /\ result.deadline_info.has_deadline
    /\ is_future_deadline(result.deadline_info.deadline_date, clock)
    /\ ~InCalendarTitles(result.email_data, existing_titles)

\* whether the loop appends the result to formatted_results
PassedOn(result, existing_titles, clock) ==
    /\ result.deadline_info # NoneRec
    /\ result.deadline_info.has_deadline
    /\ is_future_deadline(result.deadline_info.deadline_date, clock)
    /\ ~InCalendarTitles(result.email_data, existing_titles)
    /\ ~(/\ result.calendar_event # NoneRec
         /\ Get(result.calendar_event, "status") \in {"duplicate", "rejected"})

RECURSIVE FilterResults(_, _, _)
FilterResults(results, existing_titles, clock) ==
    IF results = << >> THEN << >>
    ELSE (IF PassedOn(Head(results), existing_titles, clock)
          THEN << Head(results) >> ELSE << >>)
         \o FilterResults(Tail(results), existing_titles, clock)

\* analyze_email as scan_emails calls it, without a calendar service
\* (computed once per message, day and set of processed ids)
Analysed ==
    [e \in Emails, c \in SpecClocks, p \in SUBSET Ids |->
        analyze_email(e, NoneRec, p, c)] @@ << >>

RECURSIVE ProcessBatch(_, _, _, _)
\* the loop `for email in emails: results.append(analyze_email(email))`
\* [results |-> ..., processed |-> processed_email_ids afterwards]
ProcessBatch(emails, processed, clock, results) ==
    IF emails = << >> THEN [results |-> results, processed |-> processed]
    ELSE Local(Analysed[Head(emails), clock, processed], LAMBDA a :
         Local(Append(results, a.result), LAMBDA longer :
             ProcessBatch(Tail(emails), a.processed, clock, longer)))

ScanEmails ==
    \E emails \in Batches(MaxBatch) \ { << >> } :
      \E existing_titles \in ExistingTitles(now) :
        \E b \in { ProcessBatch(emails, processed_email_ids, now, << >>) } :
            /\ processed_email_ids' = b.processed
            /\ ret' = FilterResults(b.results, existing_titles, now)
            /\ call' = [ op |-> "scan_emails", emails |-> emails,
                         results |-> b.results,
                         existing_titles |-> existing_titles,
                         processed_before |-> processed_email_ids ]
            /\ UNCHANGED <<now, calendar, issued, threads, session>>

NextScan == ScanEmails \/ Tick \/ CalendarChange

SpecScan == Init /\ [][NextScan]_vars

(***************************************************************************)
(* SpecConc: two request threads of the Flask server call                  *)
(* create_calendar_event on the one global system.  Nothing in the class   *)
(* or in the service excludes one thread while another is between the      *)
(* membership test of check_event_exists and processed_email_ids.add, so   *)
(* each of the statements below is a step of its own.                      *)
(***************************************************************************)
Threads == {"t1", "t2"}

ThreadIdle == [pc |-> "idle"]

ConcEmails == { e \in Emails : Get(e, "id") \in Ids }

ConcInfos == { d \in DeadlineInfos : d.has_deadline /\ d.deadline_type = "application" }

\* None, or a service that answers with the events of the day
ConcServices(deadline_date) ==
    { NoneRec }
    \cup { a \in Answers(deadline_date) :
             ~a.raises /\ Len(a.items) = Cardinality({ e \in calendar : e.date = deadline_date }) }

InitConc ==
    /\ processed_email_ids = {}
    /\ now = SpecStart
    /\ calendar = ForeignEvents
    /\ call = [op |-> "init"]
    /\ ret = NoneRec
    /\ issued = NoneIssued
    /\ threads = [t \in Threads |-> ThreadIdle]
    /\ session = NoSessions

\* a request thread enters create_calendar_event
Begin(t) ==
    /\ threads[t].pc \in {"idle", "done"}
    /\ \E email_data \in ConcEmails, deadline_info \in ConcInfos :
         \E calendar_service \in ConcServices(deadline_info.deadline_date) :
            threads' = [threads EXCEPT ![t] =
                          [ pc |-> "validate", email_data |-> email_data,
                            deadline_info |-> deadline_info,
                            calendar_service |-> calendar_service,
                            event |-> NoneRec ]]
    /\ UNCHANGED <<processed_email_ids, now, calendar, call, ret, issued, session>>

\* the tests on the deadline before the duplicate check
Validate(t) ==
    /\ threads[t].pc = "validate"
    /\ LET event_date  == Get(threads[t].deadline_info, "deadline_date")
           deadline_dt == FromIsoFormat(event_date)
       IN  threads' = [threads EXCEPT ![t] =
              IF \/ ~GetOr(threads[t].deadline_info, "has_deadline", FALSE)
                 \/ ~Truthy(event_date)
              THEN [@ EXCEPT !.pc = "done"]
              ELSE IF deadline_dt = NoneRec THEN [@ EXCEPT !.pc = "done"]
              ELSE IF NotInFuture(deadline_dt, now)
              THEN [@ EXCEPT !.pc = "done", !.event = Rejected(event_date)]
              ELSE [@ EXCEPT !.pc = "check_id"]]
    /\ UNCHANGED <<processed_email_ids, now, calendar, call, ret, issued, session>>

\* check_event_exists: `if email_id and email_id in self.processed_email_ids`
CheckId(t) ==
    /\ threads[t].pc = "check_id"
    /\ threads' = [threads EXCEPT ![t] =
          IF AlreadyProcessed(Get(threads[t].email_data, "id"), processed_email_ids)
          THEN [@ EXCEPT !.pc = "done", !.event = Duplicate]
          ELSE [@ EXCEPT !.pc = "lookup"]]
    /\ UNCHANGED <<processed_email_ids, now, calendar, call, ret, issued, session>>

\* check_event_exists after the id test, which CheckId made (hence the empty
\* set): the date test and the query of the calendar service
Lookup(t) ==
    /\ threads[t].pc = "lookup"
    /\ LET th == threads[t]
           check == check_event_exists(th.calendar_service, th.email_data,
                                       th.deadline_info.deadline_date, {}, now)
       IN  threads' = [threads EXCEPT ![t] =
              IF check.exists
              THEN [@ EXCEPT !.pc = "done", !.event = Duplicate]
              ELSE [@ EXCEPT !.pc = "mark"]]
    /\ UNCHANGED <<processed_email_ids, now, calendar, call, ret, issued, session>>

\* `self.processed_email_ids.add(email_id)`
Mark(t) ==
    /\ threads[t].pc = "mark"
    /\ processed_email_ids' =
          MarkProcessed(processed_email_ids, Get(threads[t].email_data, "id"))
    /\ threads' = [threads EXCEPT ![t].pc = "build"]
    /\ UNCHANGED <<now, calendar, call, ret, issued, session>>

\* the descriptor is built and returned
Build(t) ==
    /\ threads[t].pc = "build"
    /\ threads' = [threads EXCEPT ![t] =
          [@ EXCEPT !.pc = "done",
                    !.event = Descriptor(threads[t].email_data, threads[t].deadline_info,
                                         threads[t].deadline_info.deadline_date, now)]]
    /\ UNCHANGED <<processed_email_ids, now, calendar, call, ret, issued, session>>

NextConc ==
    \E t \in Threads :
        Begin(t) \/ Validate(t) \/ CheckId(t) \/ Lookup(t) \/ Mark(t) \/ Build(t)

SpecConc == InitConc /\ [][NextConc]_vars

(***************************************************************************)
(* What the properties speak about                                         *)
(***************************************************************************)
\* an event descriptor: a dict returned by create_calendar_event that is not
\* a status
IsDescriptor(event) == event # NoneRec /\ "status" \notin DOMAIN event

StatusOf(event) == IF event = NoneRec THEN None_ ELSE Get(event, "status")

\* the day of d is after the day of the clock, by year, month and day
AfterDay(d, clock) ==
    \/ d.y > clock.y
    \/ d.y = clock.y /\ d.m > clock.m
    \/ d.y = clock.y /\ d.m = clock.m /\ d.d > clock.d

\* the deadline_info carries a deadline with a date that can be read
HasDatedDeadline(info) ==
    /\ info # NoneRec
    /\ GetOr(info, "has_deadline", FALSE)
    /\ Get(info, "deadline_date") \notin {None_, ""}
    /\ FromIsoFormat(Get(info, "deadline_date")) # NoneRec

FutureDeadline(info, clock) ==
    HasDatedDeadline(info) /\ AfterDay(FromIsoFormat(Get(info, "deadline_date")), clock)

\* the last step was a call that reached create_calendar_event
Invoked ==
    \/ call.op = "create_calendar_event"
    \/ /\ call.op = "analyze_email"
       /\ GetOr(ret.classification, "is_job_related", FALSE)
       /\ GetOr(ret.deadline_info, "has_deadline", FALSE)

\* what that call of create_calendar_event was given and what it returned
LastInfo == IF call.op = "create_calendar_event" THEN call.deadline_info
            ELSE ret.deadline_info

LastEvent == IF call.op = "create_calendar_event" THEN ret ELSE ret.calendar_event

LastId == Get(call.email_data, "id")

\* the answer of the calendar service holds an event that matches the message
LookupMatches(calendar_service, email_data) ==
    /\ calendar_service # NoneRec
    /\ ~calendar_service.raises
    /\ \E i \in 1..Len(calendar_service.items) :
         LET event == calendar_service.items[i]
         IN  \/ /\ "email_id" \in DOMAIN event
                /\ "id" \in DOMAIN email_data
                /\ event.email_id = email_data.id
             \/ Contains(event.summary, Prefix(email_data.subject, SubjectPrefixLen))
             \/ Contains(event.description, Prefix(email_data.subject, SubjectPrefixLen))

(***************************************************************************)
(* C1                                                                      *)
(***************************************************************************)
\* C1: on one instance a message with a non-empty id and a deadline strictly
\* after today yields a descriptor when its id was not processed and no
\* calendar lookup is supplied, and status 'duplicate' once its id was
\* processed; over any sequence of analyze_email and create_calendar_event
\* calls no id yields two descriptors.
C1_NovelThenDuplicate ==
    /\ \A k \in Ids : issued[k] <= 1
    /\ (Invoked /\ LastId \notin {None_, ""} /\ FutureDeadline(LastInfo, now))
         => /\ LastId \in call.processed_before
                => StatusOf(LastEvent) = "duplicate"
            /\ (LastId \notin call.processed_before /\ call.calendar_service = NoneRec)
                => (IsDescriptor(LastEvent) /\ LastId \in processed_email_ids)

\* the second processing of a message: its id was processed, one descriptor
\* was issued for it, and this call ends as a duplicate
C1_Witness ==
    /\ Invoked
    /\ LastId \in Ids
    /\ LastId \in call.processed_before
    /\ issued[LastId] = 1
    /\ FutureDeadline(LastInfo, now)
    /\ StatusOf(LastEvent) = "duplicate"

(***************************************************************************)
(* C2                                                                      *)
(***************************************************************************)
\* C2: of two concurrent create_calendar_event calls on one instance for the
\* same message id at most one returns a descriptor.
C2_AtMostOneNovel ==
    threads # NoThreads =>
        \A t1, t2 \in Threads :
            (/\ t1 # t2
             /\ threads[t1].pc = "done"
             /\ threads[t2].pc = "done"
             /\ IsDescriptor(threads[t1].event)
             /\ IsDescriptor(threads[t2].event))
            => Get(threads[t1].email_data, "id") # Get(threads[t2].email_data, "id")

(***************************************************************************)
(* C3                                                                      *)
(***************************************************************************)
\* C3: create_calendar_event called with a deadline whose date is today or
\* earlier returns status 'rejected', whatever the message and the set of
\* processed ids, and leaves that set as it was.
C3_PastIsRejected ==
    (Invoked /\ HasDatedDeadline(LastInfo) /\ ~FutureDeadline(LastInfo, now))
        => /\ StatusOf(LastEvent) = "rejected"
           /\ ~IsDescriptor(LastEvent)
           /\ processed_email_ids = call.processed_before

\* a call with today's date for a message whose id was not processed, with a
\* calendar service supplied: rejected
C3_Witness ==
    /\ call.op = "create_calendar_event"
    /\ HasDatedDeadline(call.deadline_info)
    /\ call.deadline_info.deadline_date = StrfDate(now)
    /\ LastId \in Ids
    /\ LastId \notin call.processed_before
    /\ call.calendar_service # NoneRec
    /\ StatusOf(ret) = "rejected"

(***************************************************************************)
(* C4                                                                      *)
(***************************************************************************)
\* C4: a step changes processed_email_ids only when it is a call that returns
\* a descriptor, and then it adds exactly the id of the message (nothing for
\* a message without id); a call that ends as 'duplicate', as 'rejected' or
\* with no deadline leaves processed_email_ids unchanged.
C4_OnlyNovelMarks ==
    [][ IF Invoked' /\ IsDescriptor(LastEvent') /\ LastId' \notin {None_, ""}
        THEN processed_email_ids' = processed_email_ids \cup { LastId' }
        ELSE processed_email_ids' = processed_email_ids ]_vars

\* a call that returned a descriptor after the calendar was asked, with the id
\* new in the set
C4_Witness ==
    /\ Invoked
    /\ IsDescriptor(LastEvent)
    /\ call.looked_up
    /\ LastId \in processed_email_ids \ call.processed_before

(***************************************************************************)
(* C5                                                                      *)
(***************************************************************************)
\* C5: when the id of the message is not processed, the deadline is strictly
\* after today and the calendar service answers with a matching event (same
\* email_id, or title or description containing the first 30 characters of
\* the subject), the outcome is 'duplicate' and the set of processed ids is
\* unchanged.
C5_LookupMatchIsDuplicate ==
    (/\ Invoked
     /\ LastId \notin call.processed_before
     /\ FutureDeadline(LastInfo, now)
     /\ LookupMatches(call.calendar_service, call.email_data))
        => /\ StatusOf(LastEvent) = "duplicate"
           /\ processed_email_ids = call.processed_before

(***************************************************************************)
(* C6                                                                      *)
(***************************************************************************)
\* C6 as stated: two calls in a row for one message without id, with the same
\* deadline strictly after today, never both yield a descriptor.
C6_NoIdNeverTwiceNovel ==
    [][ ~(/\ Invoked /\ Invoked'
          /\ LastId \in {None_, ""}
          /\ call'.email_data = call.email_data
          /\ FutureDeadline(LastInfo, now)
          /\ Get(LastInfo', "deadline_date") = Get(LastInfo, "deadline_date")
          /\ IsDescriptor(LastEvent)
          /\ IsDescriptor(LastEvent')) ]_vars

\* C6 as the code has it: for a message without id there is no key to fall
\* back to.  With no calendar service a call with a deadline strictly after
\* today returns a descriptor every time and leaves processed_email_ids
\* unchanged; such a call ends as 'duplicate' only when a calendar service
\* was supplied and answered with a matching event.
C6_NoIdOnlyLookup ==
    (Invoked /\ LastId \in {None_, ""} /\ FutureDeadline(LastInfo, now))
        => /\ processed_email_ids = call.processed_before
           /\ call.calendar_service = NoneRec => IsDescriptor(LastEvent)
           /\ StatusOf(LastEvent) = "duplicate"
                => LookupMatches(call.calendar_service, call.email_data)

\* a message without id yields a descriptor with no calendar service, on an
\* instance that holds processed ids of other messages
C6_Witness ==
    /\ Invoked
    /\ LastId \in {None_, ""}
    /\ FutureDeadline(LastInfo, now)
    /\ call.calendar_service = NoneRec
    /\ IsDescriptor(LastEvent)
    /\ call.processed_before # {}

(***************************************************************************)
(* C7                                                                      *)
(***************************************************************************)
\* the ids a batch has marked before its i-th message
SeenBefore(i) ==
    call.processed_before
    \cup { Get(call.results[j].email_data, "id") :
             j \in { k \in 1..(i - 1) : IsDescriptor(call.results[k].calendar_event) } }

\* the subject of the message and a title of the calendar contain one another
TitleKnown(result) ==
    \E existing \in call.existing_titles :
        LET subject == Lower(Strip(result.email_data.subject))
        IN  Contains(existing, subject) \/ Contains(subject, existing)

HasUnsettledDeadline(result) ==
    /\ result.deadline_info # NoneRec
    /\ GetOr(result.deadline_info, "has_deadline", FALSE)
    /\ StatusOf(result.calendar_event) \notin {"duplicate", "rejected"}

HasUnknownUnsettledDeadline(result) ==
    /\ HasUnsettledDeadline(result)
    /\ ~AfterDay(now, FromIsoFormat(result.deadline_info.deadline_date))
    /\ ~TitleKnown(result)

\* the gates of analyze_email, on each result of a batch
Gated(i) ==
    LET result   == call.results[i]
        relevant == GetOr(result.classification, "is_job_related", FALSE)
        email_id == Get(result.email_data, "id")
    IN  /\ result.email_data = call.emails[i]
        /\ (result.deadline_info # NoneRec) <=> relevant
        /\ (result.calendar_event # NoneRec) => HasDatedDeadline(result.deadline_info)
        /\ IsDescriptor(result.calendar_event)
             => /\ relevant
                /\ FutureDeadline(result.deadline_info, now)
                /\ (email_id \in {None_, ""} \/ email_id \notin SeenBefore(i))
        /\ ~relevant => (result.deadline_info = NoneRec /\ result.calendar_event = NoneRec)

KeywordHits(email_data) ==
    { i \in 1..Len(job_keywords) :
        Contains(Lower(email_data.subject \o " " \o email_data.body
                       \o " " \o email_data.sender),
                 job_keywords[i]) }

RecruitingSender(email_data) ==
    \E marker \in {"careers@", "hr@", "recruitment@", "jobs@"} :
        Contains(Lower(email_data.sender), marker)

\* C8: classify_email_rule_based returns is_job_related = true if and only if
\* at least 2 keywords of the lexicon occur in the case-folded subject, body
\* and sender, or the case-folded sender contains careers@, hr@, recruitment@
\* or jobs@.
C8_RelevantIffScoreOrSender ==
    call.op = "classify_email_rule_based" =>
        (ret.is_job_related <=>
            (\/ Cardinality(KeywordHits(call.email_data)) >= 2
             \/ RecruitingSender(call.email_data)))

\* a recruiting sender with fewer than 2 keywords: relevant
C8_Witness ==
    /\ call.op = "classify_email_rule_based"
    /\ RecruitingSender(call.email_data)
    /\ Cardinality(KeywordHits(call.email_data)) < 2
    /\ ret.is_job_related

(***************************************************************************)
(* C9                                                                      *)
(***************************************************************************)
\* a match of the patterns in the text survives the parse, with a date that
\* is not the day of the clock
YieldsOtherDay(text, from_subject, clock) ==
    \E i \in 1..Len(FindAllPatterns(text)) :
        LET match  == FindAllPatterns(text)[i]
            parsed == parse_date_safely(match, from_subject, clock)
        IN  /\ Len(Strip(match)) >= 3
            /\ parsed # NoneRec
            /\ <<parsed.y, parsed.m, parsed.d>> # <<clock.y, clock.m, clock.d>>

\* C9: when the body yields a surviving candidate whose date is not today,
\* the subject is not searched, no candidate of the result has source
\* 'subject' and the selected deadline has source 'body'.
C9_BodyDatesFirst ==
    (/\ call.op = "extract_deadlines_rule_based"
     /\ YieldsOtherDay(call.email_data.body, FALSE, now))
        => /\ ~call.subject_searched
           /\ \A i \in 1..Len(ret.all_found_dates) :
                 ret.all_found_dates[i].source = "body"
           /\ ret.has_deadline
           /\ call.best_deadline.source = "body"

\* the body has such a date, and the subject, which is not that of a
\* forwarded message, has a date of its own that would survive
C9_Witness ==
    /\ call.op = "extract_deadlines_rule_based"
    /\ YieldsOtherDay(call.email_data.body, FALSE, now)
    /\ YieldsOtherDay(call.email_data.subject, TRUE, now)
    /\ ~Contains(Lower(call.email_data.subject), ":")
    /\ call.best_deadline.source = "body"

(***************************************************************************)
(* C10                                                                     *)
(***************************************************************************)
StartsForwarded(subject) ==
    \E marker \in {"fwd:", "fw:", "re:"} : StartsWith(Lower(subject), marker)

\* C10: a message whose subject starts with Fwd:, Fw: or Re:, in any letter
\* case, has no candidate with source 'subject' in its result, and has
\* has_deadline = false when the body yields no candidate.
C10_ForwardedSkipsSubject ==
    (/\ call.op = "extract_deadlines_rule_based"
     /\ StartsForwarded(call.email_data.subject))
        => /\ ~call.subject_searched
           /\ \A i \in 1..Len(ret.all_found_dates) :
                 ret.all_found_dates[i].source # "subject"
           /\ SearchDates(FindAllPatterns(call.email_data.body), "body", << >>, now) = << >>
                => (~ret.has_deadline /\ ret.deadline_date = None_)

\* a reply whose subject holds a date that would survive and whose body
\* yields nothing: no deadline
C10_Witness ==
    /\ call.op = "extract_deadlines_rule_based"
    /\ StartsWith(call.email_data.subject, "RE:")
    /\ YieldsOtherDay(call.email_data.subject, TRUE, now)
    /\ SearchDates(FindAllPatterns(call.email_data.body), "body", << >>, now) = << >>
    /\ ~ret.has_deadline

(***************************************************************************)
(* SpecParse: _parse_date_safely applied to one captured string at one     *)
(* time of the clock, for a body and for a subject candidate               *)
(***************************************************************************)
ParseStrings ==
    { "11/1/25", "11/20/25", "12/31/25", "2/29/24", "1/15/24", "5:00 pm",
      "Jan 15, 2026", "3/15/26", "2026-02-01", "11/1/2025", "2:30 pm" }

ParseClocks ==
    { Clock(2025, 11, 1, 14, 10), Clock(2025, 11, 2, 14, 10),
      Clock(2025, 12, 1, 14, 10), Clock(2025, 12, 16, 14, 10),
      Clock(2025, 12, 17, 14, 10), Clock(2024, 3, 10, 10, 0),
      Clock(2024, 4, 14, 10, 0), Clock(2024, 4, 15, 10, 0),
      Clock(2026, 1, 1, 14, 10), Clock(2026, 1, 20, 9, 0),
      Clock(2026, 2, 15, 9, 0), Clock(2026, 2, 16, 9, 0) }

InitParse ==
    /\ Idle
    /\ now \in ParseClocks
    /\ \E s \in ParseStrings, from_subject \in BOOLEAN :
          call = [op |-> "input", date_string |-> s, from_subject |-> from_subject]
    /\ ret = NoneRec

ParseDate ==
    /\ call.op = "input"
    /\ call' = [call EXCEPT !.op = "_parse_date_safely"]
    /\ ret' = parse_date_safely(call.date_string, call.from_subject, now)
    /\ UNCHANGED <<processed_email_ids, now, calendar, issued, threads, session>>

NextParse == ParseDate

SpecParse == InitParse /\ [][NextParse]_vars

(***************************************************************************)
(* C11                                                                     *)
(***************************************************************************)
\* the string of the last parse has no explicit 4-digit year and reads as a
\* date of the current year
YearInferred ==
    /\ call.op = "_parse_date_safely"
    /\ ~HasExplicitYear(call.date_string)
    /\ DateutilParse(call.date_string, now.y) # NoneRec
    /\ DateutilParse(call.date_string, now.y).y = now.y

\* how many days before today that date is
DaysPast == DaysBetween(now, DateutilParse(call.date_string, now.y))

\* the candidate is kept, as next year's occurrence of the date
KeptNextYear ==
    /\ ret # NoneRec
    /\ ret = [DateutilParse(call.date_string, now.y) EXCEPT !.y = now.y + 1]

\* C11: a candidate without an explicit 4-digit year whose date is d days
\* before today is kept with its year rolled forward by one when
\* 1 <= d <= 45, and discarded when d >= 46, from the body and from the
\* subject alike.
C11_RollOrDiscard ==
    YearInferred =>
        /\ (DaysPast \in 1..InferWindowDays => KeptNextYear)
        /\ (DaysPast > InferWindowDays => ret = NoneRec)

\* C11, apart from 29 February: the boundary is 45 (kept, rolled forward)
\* against 46 (discarded) for every date that exists in the next year.
C11_RollOrDiscardButLeapDay ==
    (YearInferred /\ ValidDate(now.y + 1, DateutilParse(call.date_string, now.y).m,
                               DateutilParse(call.date_string, now.y).d)) =>
        /\ (DaysPast \in 1..InferWindowDays => KeptNextYear)
        /\ (DaysPast > InferWindowDays => ret = NoneRec)

\* C11: a candidate 45 days in the past was kept and one 46 days in the past
\* was discarded (two states, each reached)
C11_Kept45 == YearInferred /\ DaysPast = InferWindowDays /\ KeptNextYear

C11_Discarded46 == YearInferred /\ DaysPast = InferWindowDays + 1 /\ ret = NoneRec

(***************************************************************************)
(* C12                                                                     *)
(***************************************************************************)
\* the reminder offsets, in minutes, of a descriptor
ReminderOffsets(event) ==
    { event.reminders.overrides[i].minutes :
        i \in 1..Len(event.reminders.overrides) }

\* the offsets the claim gives for a deadline type
ClaimedOffsets(deadline_type) ==
    {60, 1440}
    \cup (IF deadline_type \in {"application", "assessment"} THEN {4320, 10080}
          ELSE IF deadline_type = "interview" THEN {180, 2880}
          ELSE {})

\* C12: the descriptor create_calendar_event builds for a novel deadline has
\* the reminder offsets {60, 1440}, with {4320, 10080} added for the types
\* application and assessment, {180, 2880} added instead for interview, and
\* nothing added for the other types.
C12_ReminderOffsets ==
    (Invoked /\ IsDescriptor(LastEvent)) =>
        ReminderOffsets(LastEvent)
            = ClaimedOffsets(GetOr(LastInfo, "deadline_type", "deadline"))

(***************************************************************************)
(* C13                                                                     *)
(***************************************************************************)
\* the time of day of a deadline_info, "23:59" when it carries none
TimeOfDay(info) ==
    IF Get(info, "deadline_time") \in {None_, ""} THEN "23:59"
    ELSE Get(info, "deadline_time")

\* C13: every descriptor create_calendar_event returns has the same start
\* and end, and both are the deadline date combined with the extracted time
\* of day, or with 23:59 when no time was extracted.
C13_ZeroDurationAtDeadline ==
    (Invoked /\ IsDescriptor(LastEvent)) =>
        /\ LastEvent.start = LastEvent.end
        /\ LastEvent.start.dateTime
             = Get(LastInfo, "deadline_date") \o "T" \o TimeOfDay(LastInfo) \o ":00"

\* C13: a descriptor was returned for a deadline with an extracted time of
\* day, and it starts and ends at that time
C13_Witness ==
    /\ Invoked
    /\ IsDescriptor(LastEvent)
    /\ Get(LastInfo, "deadline_time") = "17:00"
    /\ LastEvent.start.dateTime = "2026-03-15T17:00:00"
    /\ LastEvent.end.dateTime = "2026-03-15T17:00:00"

\* C13: a descriptor was returned for a deadline without a time of day, and
\* it starts and ends at 23:59 of the deadline date
C13_WitnessDefault ==
    /\ Invoked
    /\ IsDescriptor(LastEvent)
    /\ Get(LastInfo, "deadline_time") = None_
    /\ LastEvent.start.dateTime = "2026-01-10T23:59:00"
    /\ LastEvent.end.dateTime = "2026-01-10T23:59:00"

(***************************************************************************)
(* SpecRoundTrip: the host stores the descriptors it is given in the       *)
(* calendar, next to the events of other clients, and the system is        *)
(* constructed anew between calls                                          *)
(***************************************************************************)
MaxStored == 1

RoundTripEmails ==
    { e \in Emails :
        e.subject \in { "Software Engineer Position - Application Deadline Dec 15",
                        "Apply by 3/15/26",
                        "Interview Invitation - Jan 01, 2026" } }

RoundTripInfos ==
    { d \in DeadlineInfos : d.has_deadline /\ FromIsoFormat(d.deadline_date) # NoneRec }

\* the calendar event that exists once a descriptor was inserted: it lies on
\* the date of its start and keeps title, description and private email_id
StoredEvent(event) ==
    [ date        |-> SubSeq(event.start.dateTime, 1, 10),
      summary     |-> event.summary,
      description |-> event.description,
      email_id    |-> event.extendedProperties.private.email_id ]

InitRoundTrip ==
    /\ processed_email_ids = {}
    /\ now = SpecStart
    /\ calendar = ForeignEvents
    /\ call = [op |-> "init"]
    /\ ret = NoneRec
    /\ issued = NoneIssued
    /\ threads = NoThreads
    /\ session = NoSessions

\* a call of create_calendar_event; the host inserts the descriptor returned
Process ==
    \E email_data \in RoundTripEmails, deadline_info \in RoundTripInfos :
      \E calendar_service \in Services(deadline_info.deadline_date) :
        \E c \in { create_calendar_event(email_data, deadline_info, calendar_service,
                                          processed_email_ids, now) } :
            /\ processed_email_ids' = c.processed
            /\ ret' = c.event
            /\ calendar' =
                 IF /\ c.event # NoneRec
                    /\ "status" \notin DOMAIN c.event
                    /\ Cardinality(calendar \ ForeignEvents) < MaxStored
                 THEN calendar \cup { StoredEvent(c.event) }
                 ELSE calendar
            /\ call' = [ op |-> "create_calendar_event", email_data |-> email_data,
                         deadline_info |-> deadline_info,
                         calendar_service |-> calendar_service,
                         processed_before |-> processed_email_ids,
                         looked_up |-> c.looked_up ]
            /\ UNCHANGED <<now, issued, threads, session>>

\* EmailReminderSystem() is constructed again
Restart ==
    /\ processed_email_ids' = {}
    /\ call' = [op |-> "restart"]
    /\ ret' = NoneRec
    /\ UNCHANGED <<now, calendar, issued, threads, session>>

NextRoundTrip == Process \/ Restart \/ Tick

SpecRoundTrip == InitRoundTrip /\ [][NextRoundTrip]_vars

(***************************************************************************)
(* C14                                                                     *)
(***************************************************************************)
\* the event in the calendar after the descriptor of the last call's message
\* and deadline was inserted (the private processed_date is not part of it)
EmittedFor(email_data, deadline_info) ==
    StoredEvent(Descriptor(email_data, deadline_info,
                           deadline_info.deadline_date, now))

\* the service answered the last call with a list that holds that event
ListsEmitted ==
    /\ call.calendar_service # NoneRec
    /\ ~call.calendar_service.raises
    /\ \E i \in 1..Len(call.calendar_service.items) :
          call.calendar_service.items[i] = EmittedFor(call.email_data, call.deadline_info)

\* C14: a descriptor emitted for a message carries the message's id as
\* extendedProperties.private.email_id; and once the inserted event is in
\* the calendar on the deadline date, a call for the same message and
\* deadline on a fresh instance (empty processed_email_ids), given the
\* answer of the calendar service that lists the event, returns 'duplicate'
\* while the deadline is after today.  (Messages with an id.)
C14_MetadataRoundTrip ==
    (call.op = "create_calendar_event" /\ "id" \in DOMAIN call.email_data) =>
        /\ (IsDescriptor(ret) =>
              ret.extendedProperties.private.email_id = call.email_data.id)
        /\ (( /\ call.processed_before = {}
              /\ ListsEmitted
              /\ FutureDeadline(call.deadline_info, now) )
            => ret = Duplicate)

\* C14 for every message, with an id or without
C14_MetadataRoundTripAnyMessage ==
    ( /\ call.op = "create_calendar_event"
      /\ call.processed_before = {}
      /\ ListsEmitted
      /\ FutureDeadline(call.deadline_info, now) )
    => ret = Duplicate

\* C14: the descriptor of message e1 was inserted, the system was constructed
\* anew, and the call for e1 with the lookup that lists the event (after an
\* event of another message) returned 'duplicate'
C14_Witness ==
    /\ call.op = "create_calendar_event"
    /\ Get(call.email_data, "id") = "e1"
    /\ call.processed_before = {}
    /\ ListsEmitted
    /\ Len(call.calendar_service.items) = 2
    /\ call.calendar_service.items[2] = EmittedFor(call.email_data, call.deadline_info)
    /\ EmittedFor(call.email_data, call.deadline_info) \in calendar \ ForeignEvents
    /\ ret = Duplicate
    /\ processed_email_ids = {}

(***************************************************************************)
(* C15                                                                     *)
(***************************************************************************)
\* the urgency the claim gives a category by default
ClaimedDefaultUrgency(category) ==
    IF category \in {"interview", "assessment"} THEN "high"
    ELSE IF category = "application" THEN "medium"
    ELSE "low"

\* C15: the urgency classify_email_rule_based returns is the default of the
\* category (interview and assessment high, application medium, every other
\* category, job_posting too, low), raised to medium when it is low and the
\* sender matches a recruiting marker, and never lowered.
C15_UrgencyFromCategory ==
    call.op = "classify_email_rule_based" =>
        ret.urgency =
            IF /\ RecruitingSender(call.email_data)
               /\ ClaimedDefaultUrgency(ret.category) = "low"
            THEN "medium"
            ELSE ClaimedDefaultUrgency(ret.category)

\* the urgency the code gives a category by default
DefaultUrgency(category) ==
    IF category \in {"interview", "assessment"} THEN "high"
    ELSE IF category \in {"application", "job_posting"} THEN "medium"
    ELSE "low"

\* C15, amended: the default of the category is high for interview and
\* assessment, medium for application and for job_posting, low for other;
\* it is raised to medium when it is low and the sender matches a recruiting
\* marker, and never lowered.
C15_UrgencyByCategory ==
    call.op = "classify_email_rule_based" =>
        /\ ret.category \in {"interview", "application", "assessment",
                             "job_posting", "other"}
        /\ ret.urgency =
              IF /\ RecruitingSender(call.email_data)
                 /\ DefaultUrgency(ret.category) = "low"
              THEN "medium"
              ELSE DefaultUrgency(ret.category)

\* C15: a job posting from a sender that is no recruiting address got the
\* urgency medium
C15_Witness ==
    /\ call.op = "classify_email_rule_based"
    /\ ret.category = "job_posting"
    /\ ~RecruitingSender(call.email_data)
    /\ ret.urgency = "medium"

\* C15: the category other from a recruiting sender was raised to medium,
\* and an assessment from one stayed high
C15_WitnessRaised ==
    /\ call.op = "classify_email_rule_based"
    /\ ret.category = "other"
    /\ RecruitingSender(call.email_data)
    /\ ret.urgency = "medium"

C15_WitnessNotLowered ==
    /\ call.op = "classify_email_rule_based"
    /\ ret.category = "assessment"
    /\ RecruitingSender(call.email_data)
    /\ ret.urgency = "high"

(***************************************************************************)
(* C16                                                                     *)
(***************************************************************************)
\* the last step was an extraction in which no candidate survived
NoCandidate ==
    /\ call.op = "extract_deadlines_rule_based"
    /\ ret.all_found_dates = << >>

\* C16: when no candidate survives, extract_deadlines_rule_based returns
\* has_deadline = false with deadline_date, deadline_time, deadline_type,
\* deadline_text and description all None.
C16_AllNullWithoutDeadline ==
    NoCandidate =>
        /\ ret.has_deadline = FALSE
        /\ ret.deadline_date = None_
        /\ ret.deadline_time = None_
        /\ ret.deadline_type = None_
        /\ ret.deadline_text = None_
        /\ ret.description = None_

\* C16, amended: when no candidate survives, has_deadline is false,
\* deadline_date, deadline_time, deadline_text, description and timezone are
\* None, and deadline_type is "other": the type is computed only when a
\* deadline was selected, and has_deadline is false only when none survived.
C16_NullButTypeOther ==
    /\ NoCandidate =>
          /\ ret.has_deadline = FALSE
          /\ ret.deadline_date = None_
          /\ ret.deadline_time = None_
          /\ ret.deadline_text = None_
          /\ ret.description = None_
          /\ ret.timezone = None_
          /\ ret.deadline_type = "other"
          /\ ret.all_deadline_texts = << >>
    /\ (call.op = "extract_deadlines_rule_based" /\ ~ret.has_deadline) => NoCandidate

\* C16: the patterns captured a date in the body, no candidate survived, and
\* the type is "other" although the text names another type
C16_Witness ==
    /\ NoCandidate
    /\ FindAllPatterns(call.email_data.body) # << >>
    /\ DeadlineTypeOf(Lower(call.email_data.subject \o " " \o call.email_data.body))
          = "interview"
    /\ ret.has_deadline = FALSE
    /\ ret.deadline_type = "other"
    /\ ret.deadline_text = None_

(***************************************************************************)
(* C17                                                                     *)
(***************************************************************************)
\* the last step was a pipeline run in which the extraction found a deadline
PipelineFoundDeadline ==
    /\ call.op = "analyze_email"
    /\ ret.deadline_info # NoneRec
    /\ ret.deadline_info.has_deadline

\* C17: whenever the extraction found a deadline, the calendar_event of the
\* pipeline result is an event descriptor, the 'duplicate' status or the
\* 'rejected' status, never None; and the two statuses differ.
C17_OutcomeIsReturned ==
    /\ Duplicate.status # Rejected("2026-01-10").status
    /\ PipelineFoundDeadline =>
          /\ ret.calendar_event # NoneRec
          /\ \/ IsDescriptor(ret.calendar_event)
             \/ ret.calendar_event = Duplicate
             \/ ret.calendar_event = Rejected(ret.deadline_info.deadline_date)

\* C17: the pipeline found a deadline of today (a time later today) and the
\* outcome returned is 'rejected'
C17_Witness ==
    /\ PipelineFoundDeadline
    /\ StatusOf(ret.calendar_event) = "rejected"
    /\ ret.deadline_info.deadline_date = StrfDate(now)

\* C17: the other two outcomes of the pipeline
C17_WitnessDescriptor == PipelineFoundDeadline /\ IsDescriptor(ret.calendar_event)

C17_WitnessDuplicate ==
    PipelineFoundDeadline /\ StatusOf(ret.calendar_event) = "duplicate"

(***************************************************************************)
(* C18                                                                     *)
(***************************************************************************)
\* the last call reached create_calendar_event with a dated deadline for a
\* message whose id was in processed_email_ids when it was called
CalledForProcessedId ==
    /\ Invoked
    /\ HasDatedDeadline(LastInfo)
    /\ LastId \notin {None_, ""}
    /\ LastId \in call.processed_before

\* C18: id membership is tested first: a call for a message whose id is in
\* processed_email_ids returns 'duplicate', also when the deadline date is
\* today or earlier (it is not reported as 'rejected').
C18_IdBeforeDate ==
    CalledForProcessedId => StatusOf(LastEvent) = "duplicate"

\* C18, what the code does: create_calendar_event tests the date before the
\* id: a call for a message whose id is in processed_email_ids returns
\* 'rejected' when the deadline date is today or earlier, and 'duplicate'
\* only when it is after today; in neither case is the calendar service
\* called or processed_email_ids changed.
C18_DateBeforeId ==
    CalledForProcessedId =>
        /\ StatusOf(LastEvent) =
              IF FutureDeadline(LastInfo, now) THEN "duplicate" ELSE "rejected"
        /\ ~call.looked_up
        /\ processed_email_ids = call.processed_before

\* C18: a message whose id is processed was given a deadline of today, and
\* the outcome is 'rejected'
C18_RejectedAlthoughProcessed ==
    /\ CalledForProcessedId
    /\ ~FutureDeadline(LastInfo, now)
    /\ StatusOf(LastEvent) = "rejected"
    /\ LastEvent.reason = "past_deadline"

(***************************************************************************)
(* C19                                                                     *)
(***************************************************************************)
\* the last step was a call in which the calendar service was queried
LookedUp ==
    /\ call.op \in {"create_calendar_event", "analyze_email"}
    /\ call.looked_up

\* C19: the calendar service is queried only after both local tests passed:
\* no call queries it for a message whose id is in processed_email_ids, or
\* for a deadline whose date is today or earlier.
C19_LookupAfterLocalChecks ==
    LookedUp => /\ LastId \notin call.processed_before
                /\ FutureDeadline(LastInfo, now)
                /\ call.calendar_service # NoneRec

\* the service was queried for a new id and a date after today, while
\* processed_email_ids held another id
C19_Witness ==
    /\ LookedUp
    /\ LastId \in Ids
    /\ call.processed_before # {}
    /\ LastId \notin call.processed_before

\* a call for a processed id and a date after today, with a service supplied,
\* in which the service was not queried
C19_WitnessProcessed ==
    /\ call.op = "create_calendar_event"
    /\ call.calendar_service # NoneRec
    /\ FutureDeadline(call.deadline_info, now)
    /\ LastId \in call.processed_before
    /\ ~call.looked_up
    /\ StatusOf(ret) = "duplicate"

(***************************************************************************)
(* C20                                                                     *)
(***************************************************************************)
\* the ids for which a descriptor was returned so far
IssuedIds == { k \in Ids : issued[k] > 0 }

\* C20: processed_email_ids is empty at construction, no step removes an id
\* from it, and in every reachable state it holds exactly the non-empty ids
\* for which a descriptor was returned: no id is consumed without an event.
C20_GrowsWithDescriptors ==
    /\ processed_email_ids = {}
    /\ [][processed_email_ids \subseteq processed_email_ids']_vars
    /\ [](processed_email_ids = IssuedIds)

\* the set grew twice: a descriptor was just returned for a second id
C20_Witness ==
    /\ Invoked
    /\ IsDescriptor(LastEvent)
    /\ call.processed_before # {}
    /\ Cardinality(processed_email_ids) = Cardinality(call.processed_before) + 1
    /\ processed_email_ids = IssuedIds

\* calls that returned no descriptor for a new id left the set as it was
C20_WitnessNotConsumed ==
    /\ Invoked
    /\ LastId \in Ids \ call.processed_before
    /\ ~IsDescriptor(LastEvent)
    /\ call.processed_before # {}
    /\ processed_email_ids = call.processed_before

(***************************************************************************)
(* C21                                                                     *)
(***************************************************************************)
\* the position of the selected candidate in all_found_dates
SelectedAt(i) ==
    /\ i \in 1..Len(ret.all_found_dates)
    /\ ret.all_found_dates[i] = call.best_deadline

\* C21 as stated: the selected candidate is the earliest of all_found_dates;
\* no candidate of the list has a strictly earlier date and time.
C21_SelectsEarliest ==
    (call.op = "extract_deadlines_rule_based" /\ ret.has_deadline)
        => \A j \in 1..Len(ret.all_found_dates) :
              Minutes(ret.all_found_dates[j].parsed) >= Minutes(call.best_deadline.parsed)

\* C21, amended: the selected candidate is the earliest among the body
\* candidates when the body has one, and the earliest of the list otherwise;
\* among equals it is the first in list order; a subject candidate is earlier
\* than a selected body candidate only when both are dated today.
C21_SelectsEarliestOfBody ==
    (call.op = "extract_deadlines_rule_based" /\ ret.has_deadline)
        => /\ \E i \in 1..Len(ret.all_found_dates) : SelectedAt(i)
           /\ \A j \in 1..Len(ret.all_found_dates) :
                 LET other == ret.all_found_dates[j]
                 IN  /\ other.source = call.best_deadline.source
                        => Minutes(other.parsed) >= Minutes(call.best_deadline.parsed)
                     /\ Minutes(other.parsed) < Minutes(call.best_deadline.parsed)
                        => /\ other.source = "subject"
                           /\ call.best_deadline.source = "body"
                           /\ DateOf(other.parsed) = DateOf(now)
                           /\ DateOf(call.best_deadline.parsed) = DateOf(now)
                     /\ (call.best_deadline.source = "subject") => (other.source = "subject")

\* a body candidate was selected although a subject candidate of the list is
\* earlier
C21_Witness ==
    /\ call.op = "extract_deadlines_rule_based"
    /\ ret.has_deadline
    /\ call.best_deadline.source = "body"
    /\ \E j \in 1..Len(ret.all_found_dates) :
          /\ ret.all_found_dates[j].source = "subject"
          /\ Minutes(ret.all_found_dates[j].parsed) < Minutes(call.best_deadline.parsed)

\* the earliest of several subject candidates was selected
C21_WitnessSubject ==
    /\ call.op = "extract_deadlines_rule_based"
    /\ ret.has_deadline
    /\ call.best_deadline.source = "subject"
    /\ Len(ret.all_found_dates) >= 2

(***************************************************************************)
(* C22                                                                     *)
(***************************************************************************)
\* the candidates the subject yields when it is searched
SubjectCandidates ==
    SortByParsed(SearchDates(FindAllPatterns(call.email_data.subject), "subject",
                             << >>, now), << >>)

\* C22: a message is flagged as forwarded exactly when its subject starts
\* with fwd:, fw: or re: in any letter case; a message that is not so
\* prefixed and whose body has no date other than today has its subject
\* searched, and the earliest surviving subject candidate is its deadline.
C22_FlaggedIffPrefixed ==
    (call.op = "extract_deadlines_rule_based")
        => /\ call.is_forwarded <=> StartsForwarded(call.email_data.subject)
           /\ (/\ ~StartsForwarded(call.email_data.subject)
               /\ ~YieldsOtherDay(call.email_data.body, FALSE, now)
               /\ ret.all_found_dates = SubjectCandidates
               /\ SubjectCandidates # << >>)
                 => /\ ret.has_deadline
                    /\ ret.deadline_date = SubjectCandidates[1].date_str

\* C22, the half the code keeps: a subject that starts with one of the
\* prefixes is flagged, and a subject without any colon is not.
C22_PrefixedIsFlagged ==
    (call.op = "extract_deadlines_rule_based")
        => /\ StartsForwarded(call.email_data.subject) => call.is_forwarded
           /\ ~Contains(call.email_data.subject, ":") => ~call.is_forwarded

\* a subject that is not prefixed and holds a date that would survive is
\* flagged, and the message has no deadline
C22_FlaggedWithoutPrefix ==
    /\ call.op = "extract_deadlines_rule_based"
    /\ ~StartsForwarded(call.email_data.subject)
    /\ call.is_forwarded
    /\ YieldsOtherDay(call.email_data.subject, TRUE, now)
    /\ ~ret.has_deadline

(***************************************************************************)
(* C23                                                                     *)
(***************************************************************************)
\* what dateutil makes of the string of the last parse, before any inference
ParsedAsWritten == DateutilParse(call.date_string, now.y)

\* the last parse was that of a subject candidate that dateutil could read
SubjectParse ==
    /\ call.op = "_parse_date_safely"
    /\ call.from_subject
    /\ ParsedAsWritten # NoneRec

\* C23: for a subject candidate, a parsed date before today means the
\* candidate is discarded, also when it has no explicit year and lies 45 days
\* or fewer in the past; a subject candidate without explicit year more than
\* 180 days ahead is returned.
C23_SubjectPastDiscarded ==
    SubjectParse
        => /\ DateBefore(ParsedAsWritten, now) => ret = NoneRec
           /\ (/\ ~HasExplicitYear(call.date_string)
               /\ DaysBetween(ParsedAsWritten, now) > SuspiciousDays)
                 => ret = ParsedAsWritten

\* C23, the half the code keeps: a subject candidate without explicit year
\* more than 180 days ahead is returned as parsed, and a subject candidate
\* in the past is discarded when its year is explicit, when it is of another
\* year, or when it lies more than 45 days back.
C23_SuspiciousKept ==
    SubjectParse
        => /\ (/\ ~HasExplicitYear(call.date_string)
               /\ DaysBetween(ParsedAsWritten, now) > SuspiciousDays)
                 => ret = ParsedAsWritten
           /\ (/\ DateBefore(ParsedAsWritten, now)
               /\ \/ HasExplicitYear(call.date_string)
                  \/ ParsedAsWritten.y # now.y
                  \/ DaysBetween(now, ParsedAsWritten) > InferWindowDays)
                 => ret = NoneRec

\* a subject candidate without explicit year, in the past by 45 days or
\* fewer, came back as next year's date
C23_SubjectRolled ==
    /\ SubjectParse
    /\ DateBefore(ParsedAsWritten, now)
    /\ ret # NoneRec
    /\ ret.y = now.y + 1

\* a subject candidate without explicit year more than 180 days ahead came
\* back
C23_SuspiciousReturned ==
    /\ SubjectParse
    /\ ~HasExplicitYear(call.date_string)
    /\ DaysBetween(ParsedAsWritten, now) > SuspiciousDays
    /\ ret = ParsedAsWritten

(***************************************************************************)
(* C24                                                                     *)
(***************************************************************************)
\* the date and time the candidate of the last parse resolves to: next
\* year's occurrence for a date without explicit year 1 to 45 days back
\* (where that day exists), the date as written otherwise
Resolved ==
    IF YearInferred /\ DaysPast \in 1..InferWindowDays
    THEN ReplaceYear(ParsedAsWritten, now.y + 1)
    ELSE ParsedAsWritten

\* C24: _parse_date_safely returns a candidate exactly when its resolved
\* date and time is after now, to the minute: the date is after today, or it
\* is today and the time of day is later than the current time.
C24_ReturnedIffStrictlyFuture ==
    (call.op = "_parse_date_safely" /\ ParsedAsWritten # NoneRec)
        => /\ ret # NoneRec => ret = Resolved
           /\ (ret # NoneRec) <=> (Minutes(Resolved) > Minutes(now))

\* C24, what the code does: a candidate is returned only when its date is
\* after today or it is today at a later hour of the clock, and every
\* candidate of a body that resolves so is returned; minutes are not
\* compared.
C24_ReturnedIffLaterHour ==
    (call.op = "_parse_date_safely" /\ ParsedAsWritten # NoneRec)
        => /\ ret # NoneRec => ret = Resolved
           /\ ret # NoneRec
                => \/ DateBefore(now, ret)
                   \/ (DateOf(ret) = DateOf(now) /\ ret.hh > now.hh)
           /\ (/\ ~call.from_subject
               /\ \/ DateBefore(now, Resolved)
                  \/ (DateOf(Resolved) = DateOf(now) /\ Resolved.hh > now.hh))
                => ret = Resolved

\* a candidate of today, later than now within the current hour, discarded
C24_SameHourDiscarded ==
    /\ call.op = "_parse_date_safely"
    /\ ParsedAsWritten # NoneRec
    /\ DateOf(Resolved) = DateOf(now)
    /\ Resolved.hh = now.hh
    /\ Resolved.mi > now.mi
    /\ ret = NoneRec

\* a candidate of today at a later hour, returned
C24_LaterHourReturned ==
    /\ call.op = "_parse_date_safely"
    /\ ret # NoneRec
    /\ DateOf(ret) = DateOf(now)
    /\ ret.hh > now.hh

(***************************************************************************)
(* C25                                                                     *)
(***************************************************************************)
\* the strings the patterns capture in the message of the last extraction
Captured ==
    LET all == FindAllPatterns(call.email_data.body)
               \o FindAllPatterns(call.email_data.subject)
    IN  { all[i] : i \in 1..Len(all) }

\* a captured string with an explicit 4-digit year whose date is today or
\* earlier
ExplicitPast(match) ==
    /\ HasExplicitYear(match)
    /\ DateutilParse(match, now.y) # NoneRec
    /\ ~DateBefore(now, DateutilParse(match, now.y))

\* C25: a candidate with an explicit 4-digit year is never year-shifted: it
\* is returned as parsed when its date is after today and discarded when it
\* is in the past, by however few days, and the message yields no deadline
\* from a date written with an explicit year that is in the past.
C25_ExplicitYearTrusted ==
    /\ (call.op = "_parse_date_safely" /\ HasExplicitYear(call.date_string)
        /\ ParsedAsWritten # NoneRec)
          => ret = IF DateBefore(now, ParsedAsWritten) THEN ParsedAsWritten ELSE NoneRec
    /\ (call.op = "extract_deadlines_rule_based")
          => /\ \A i \in 1..Len(ret.all_found_dates) :
                   LET c == ret.all_found_dates[i]
                   IN  HasExplicitYear(c.text)
                         => /\ c.parsed = DateutilParse(c.text, now.y)
                            /\ DateBefore(now, c.parsed)
             /\ \A match \in Captured :
                   (ExplicitPast(match) /\ ret.has_deadline)
                      => ~Contains(match, ret.deadline_text)

\* C25, the half the code keeps: every candidate with an explicit 4-digit
\* year is returned as parsed when its date is after today and discarded
\* otherwise, and no candidate of a result has an explicit year and a date
\* other than the one written.
C25_ExplicitCandidateTrusted ==
    /\ (call.op = "_parse_date_safely" /\ HasExplicitYear(call.date_string)
        /\ ParsedAsWritten # NoneRec)
          => ret = IF DateBefore(now, ParsedAsWritten) THEN ParsedAsWritten ELSE NoneRec
    /\ (call.op = "extract_deadlines_rule_based")
          => \A i \in 1..Len(ret.all_found_dates) :
                LET c == ret.all_found_dates[i]
                IN  HasExplicitYear(c.text)
                      => /\ c.parsed = DateutilParse(c.text, now.y)
                         /\ DateBefore(now, c.parsed)

\* the message has a deadline whose text is a piece of a date written with
\* an explicit year that is in the past
C25_DeadlineFromPastExplicit ==
    /\ call.op = "extract_deadlines_rule_based"
    /\ ret.has_deadline
    /\ \E match \in Captured :
          /\ ExplicitPast(match)
          /\ Contains(match, ret.deadline_text)
          /\ match # ret.deadline_text

(***************************************************************************)
(* C26                                                                     *)
(***************************************************************************)
\* the last call queried a calendar service that raised, for a message with
\* a new id and a deadline after today
LookupRaised ==
    /\ Invoked
    /\ call.calendar_service # NoneRec
    /\ call.calendar_service.raises
    /\ LastId \notin {None_, ""}
    /\ LastId \notin call.processed_before
    /\ FutureDeadline(LastInfo, now)

\* C26: a calendar lookup that raises fails open: for a new id and a deadline
\* after today the call returns a descriptor and adds the id, and the next
\* processing of the same message on the instance, its deadline still after
\* today, ends as 'duplicate' without a lookup, whatever service is supplied.
C26_LookupFailsOpen ==
    /\ [](LookupRaised
            => /\ call.looked_up
               /\ IsDescriptor(LastEvent)
               /\ processed_email_ids = call.processed_before \cup { LastId })
    /\ [][ (/\ LookupRaised
            /\ Invoked'
            /\ call'.email_data = call.email_data
            /\ FutureDeadline(LastInfo', now'))
              => /\ StatusOf(LastEvent') = "duplicate"
                 /\ ~call'.looked_up
                 /\ processed_email_ids' = processed_email_ids ]_vars

\* the lookup raised while the calendar held an event of that day for the
\* very message, and a descriptor was returned
C26_Witness ==
    /\ LookupRaised
    /\ IsDescriptor(LastEvent)
    /\ LastId \in processed_email_ids
    /\ \E e \in calendar :
          /\ e.date = LastInfo.deadline_date
          /\ "email_id" \in DOMAIN e
          /\ e.email_id = LastId

(***************************************************************************)
(* C27                                                                     *)
(***************************************************************************)
\* the date of the start of a descriptor
StartDate(event) == FromIsoFormat(SubSeq(event.start.dateTime, 1, 10))

\* the pipeline selected a deadline dated today
SelectedToday ==
    /\ call.op = "analyze_email"
    /\ GetOr(ret.classification, "is_job_related", FALSE)
    /\ GetOr(ret.deadline_info, "has_deadline", FALSE)
    /\ ret.deadline_info.deadline_date = StrfDate(now)

\* C27: every descriptor that is returned starts on a day after the day of
\* processing; a deadline dated today, which the extraction selects when its
\* time of day is at a later hour, is turned into 'rejected' by
\* create_calendar_event and leaves processed_email_ids as it was.
C27_DescriptorAfterToday ==
    /\ (Invoked /\ IsDescriptor(LastEvent))
          => /\ StartDate(LastEvent) # NoneRec
             /\ AfterDay(StartDate(LastEvent), now)
    /\ SelectedToday
          => /\ StatusOf(ret.calendar_event) = "rejected"
             /\ processed_email_ids = call.processed_before

\* analyze_email selected a deadline of today with a time of day, for a
\* message with a new id, and the outcome is 'rejected'
C27_Witness ==
    /\ SelectedToday
    /\ ret.deadline_info.deadline_time # None_
    /\ LastId \in Ids
    /\ LastId \notin processed_email_ids
    /\ StatusOf(ret.calendar_event) = "rejected"

(***************************************************************************)
(* SpecSync: POST /api/calendar/reminders (create_calendar_reminders of    *)
(* api_service.py) on the user's Google calendar.  An event of the         *)
(* calendar is [id, summary, date]; ids are numbers in the order of        *)
(* creation.  The handler is one step: the list and insert requests of     *)
(* one call are not interleaved with other clients here.                   *)
(***************************************************************************)
\* the emails of a request and the ids of the events of the calendar are
\* bounded
MaxRequest == 2

MaxEvents == 4

\* `len(common) >= len(subject_words) * 0.7`, in tenths
SimilarityTenths == 7

\* timedelta(days=1) on either side of the deadline
WindowDays == 1

\* subject[:100] in the title of a created event
TitleLen == 100

\* the end of the word of t that starts at position i
WordEnd(t, i) ==
    CHOOSE j \in i..Len(t) :
        /\ \A k \in i..j : SubSeq(t, k, k) # " "
        /\ (j = Len(t) \/ SubSeq(t, j + 1, j + 1) = " ")

\* set(text.split()) for texts whose whitespace is the blank
SplitWords(t) ==
    { SubSeq(t, i, WordEnd(t, i)) :
        i \in { k \in 1..Len(t) : /\ SubSeq(t, k, k) # " "
                                  /\ (k = 1 \/ SubSeq(t, k - 1, k - 1) = " ") } }

SyncDeadline(has_deadline, date, time) ==
    [ has_deadline |-> has_deadline, date |-> date, time |-> time ]

SyncEmails ==
    { [ email_id |-> "m1", subject |-> "Apply by 3/15/26",
        deadline |-> SyncDeadline(TRUE, "2026-03-15", None_) ],
      [ email_id |-> "m2", subject |-> "Reminder: apply by 3/15/26",
        deadline |-> SyncDeadline(TRUE, "2026-03-16", "17:00") ],
      [ email_id |-> "m3", subject |-> "Lunch?",
        deadline |-> SyncDeadline(FALSE, None_, None_) ],
      [ email_id |-> "m4", subject |-> "Coding challenge",
        deadline |-> SyncDeadline(TRUE, None_, None_) ] }

\* the events other clients of the calendar keep in it
SyncForeign ==
    { [ id |-> 1, summary |-> "[mail] Job Deadline: Apply by 3/15/26",
        date |-> "2026-03-15" ],
      [ id |-> 2, summary |-> "Team lunch", date |-> "2026-03-15" ] }

\* the title of the event the handler inserts; "[mail]" stands for the
\* envelope sign that opens it
SyncTitle(subject) == "[mail] Job Deadline: " \o Prefix(subject, TitleLen)

\* the subjects and titles of the model
SyncTexts ==
    { e.subject : e \in SyncEmails }
    \cup { SyncTitle(e.subject) : e \in SyncEmails }
    \cup { e.summary : e \in SyncForeign }

\* set(text.lower().split()) of each of them
WordSets == [ text \in SyncTexts |-> SplitWords(Lower(text)) ]

WordSet(text) == WordSets[text]

\* the similarity test of the duplicate check
Similar(subject, existing) ==
    Cardinality(WordSet(subject) \cap WordSet(existing.summary)) * 10
        >= Cardinality(WordSet(subject)) * SimilarityTenths

\* events().list(timeMin = deadline - 1 day, timeMax = deadline + 1 day): the
\* events that start from the day before the deadline up to the end of its
\* day (timeMax bounds the start of an event from above)
ListedEvents(events, deadline_dt) ==
    { e \in events :
        /\ DaysBetween(FromIsoFormat(e.date), deadline_dt) >= -WindowDays
        /\ DaysBetween(FromIsoFormat(e.date), deadline_dt) < WindowDays }

\* the first event of the listing that is similar to the subject, NoneRec
\* when none is
FirstSimilar(events, subject) ==
    IF \E e \in events : Similar(subject, e)
    THEN CHOOSE e \in events :
            /\ Similar(subject, e)
            /\ \A f \in events : Similar(subject, f) => e.id <= f.id
    ELSE NoneRec

NextEventId(events) ==
    IF events = {} THEN 1
    ELSE 1 + (CHOOSE n \in { e.id : e \in events } : \A e \in events : e.id <= n)

\* the local variables of the handler before the loop; `dt` is a local name
\* of the function (it is imported inside the loop, after its first use), so
\* it is unbound until that import has run
SyncStart(events) ==
    [ events |-> events, dt_bound |-> FALSE, created_events |-> << >>,
      duplicate_events |-> << >>, failed_events |-> << >>, skipped_events |-> << >> ]

\* one pass of the loop `for email in emails`
SyncOne(l, email) ==
    LET email_id == email.email_id
        subject  == email.subject
        deadline == email.deadline
        deadline_date == Get(deadline, "date")
    IN  IF ~GetOr(deadline, "has_deadline", FALSE)
        THEN [l EXCEPT !.skipped_events = Append(@, email_id)]
        ELSE
        Local(IF Truthy(deadline_date) /\ l.dt_bound
                 /\ FromIsoFormat(deadline_date) # NoneRec
              THEN FirstSimilar(ListedEvents(l.events, FromIsoFormat(deadline_date)),
                                subject)
              ELSE NoneRec, LAMBDA found :
            IF found # NoneRec
            THEN [l EXCEPT !.duplicate_events =
                     Append(@, [ email_id |-> email_id, existing_event_id |-> found.id,
                                 reason |-> "similar_event_exists" ])]
            ELSE IF ~Truthy(deadline_date) \/ FromIsoFormat(deadline_date) = NoneRec
            THEN [l EXCEPT !.dt_bound = TRUE,
                           !.failed_events = Append(@, email_id)]
            ELSE Local(NextEventId(l.events), LAMBDA id :
                 [l EXCEPT !.dt_bound = TRUE,
                           !.events = @ \cup { [ id |-> id, summary |-> SyncTitle(subject),
                                                 date |-> deadline_date ] },
                           !.created_events =
                               Append(@, [ event_id |-> id, email_id |-> email_id,
                                           title |-> subject,
                                           start_time |-> deadline_date \o "T"
                                               \o (IF Truthy(Get(deadline, "time"))
                                                   THEN deadline.time \o ":00"
                                                   ELSE "23:59:00"),
                                           status |-> "synced_to_google_calendar" ])]))

RECURSIVE SyncLoop(_, _)
SyncLoop(l, emails) ==
    IF emails = << >> THEN l
    ELSE Local(SyncOne(l, Head(emails)), LAMBDA after : SyncLoop(after, Tail(emails)))

\* the JSON the handler answers with
SyncResponse(l) ==
    [ success |-> TRUE,
      created_events |-> l.created_events,
      duplicate_events |-> l.duplicate_events,
      summary |-> [ total_events_created |-> Len(l.created_events),
                    duplicate_events |-> Len(l.duplicate_events),
                    failed_events |-> Len(l.failed_events),
                    skipped_events |-> Len(l.skipped_events) ] ]

RECURSIVE Requests(_)
\* the lists of n emails
Requests(n) ==
    IF n = 0 THEN { << >> }
    ELSE { Append(r, e) : r \in Requests(n - 1), e \in SyncEmails }

InitSync ==
    /\ processed_email_ids = {}
    /\ now = SpecStart
    /\ calendar \in SUBSET SyncForeign
    /\ call = [op |-> "init"]
    /\ ret = NoneRec
    /\ issued = NoneIssued
    /\ threads = NoThreads
    /\ session = NoSessions

\* POST /api/calendar/reminders with credentials in the session
CreateCalendarReminders ==
    \E n \in 1..MaxRequest :
      \E emails \in Requests(n) :
        /\ NextEventId(calendar) + n - 1 <= MaxEvents
        /\ \E l \in { SyncLoop(SyncStart(calendar), emails) } :
              /\ calendar' = l.events
              /\ ret' = SyncResponse(l)
              /\ call' = [ op |-> "create_calendar_reminders", emails |-> emails,
                           calendar_before |-> calendar ]
        /\ UNCHANGED <<processed_email_ids, now, issued, threads, session>>

\* the user deletes an event in Google Calendar
DeleteEvent ==
    /\ \E e \in calendar : calendar' = calendar \ { e }
    /\ call' = [op |-> "delete"]
    /\ ret' = NoneRec
    /\ UNCHANGED <<processed_email_ids, now, issued, threads, session>>

NextSync == CreateCalendarReminders \/ DeleteEvent

SpecSync == InitSync /\ [][NextSync]_vars

(***************************************************************************)
(* C28                                                                     *)
(***************************************************************************)
\* the email at position i of the last request has a deadline with a date
HasDeadlineDate(i) ==
    /\ call.emails[i].deadline.has_deadline
    /\ call.emails[i].deadline.date # None_
    /\ FromIsoFormat(call.emails[i].deadline.date) # NoneRec

\* an event that was in the calendar before the request, within one day of
\* the deadline of the email at position i, has a title that shares 70% of
\* the words of its subject
SimilarExisted(i) ==
    \E e \in call.calendar_before :
        /\ e.date = call.emails[i].deadline.date
        /\ Cardinality(WordSet(call.emails[i].subject) \cap WordSet(e.summary)) * 10
              >= Cardinality(WordSet(call.emails[i].subject)) * 7

Recorded(list, email_id) == \E k \in 1..Len(list) : list[k].email_id = email_id

\* C28: in POST /api/calendar/reminders every email with a deadline date is
\* checked against the events within one day of that date, and when the
\* title of one shares at least 70% of the words of the subject the email is
\* recorded in duplicate_events and no event is inserted for it, at every
\* position of the list, the first included.
C28_DuplicateCheckedEverywhere ==
    (call.op = "create_calendar_reminders")
        => \A i \in 1..Len(call.emails) :
              (HasDeadlineDate(i) /\ SimilarExisted(i))
                 => /\ Recorded(ret.duplicate_events, call.emails[i].email_id)
                    /\ (\A j \in 1..Len(call.emails) :
                           j # i => call.emails[j].email_id # call.emails[i].email_id)
                          => ~Recorded(ret.created_events, call.emails[i].email_id)

\* C28, what the code does: the check is made at the positions after the
\* first email that has a deadline; there a similar event of the day means
\* the email is recorded in duplicate_events and nothing is inserted for it.
C28_DuplicateCheckedAfterFirst ==
    (call.op = "create_calendar_reminders")
        => \A i \in 1..Len(call.emails) :
              (/\ HasDeadlineDate(i)
               /\ SimilarExisted(i)
               /\ \E j \in 1..(i - 1) : call.emails[j].deadline.has_deadline
               /\ \A j \in 1..Len(call.emails) :
                     j # i => call.emails[j].email_id # call.emails[i].email_id)
                 => /\ Recorded(ret.duplicate_events, call.emails[i].email_id)
                    /\ ~Recorded(ret.created_events, call.emails[i].email_id)

\* the first email of a request was inserted although a similar event of
\* its day was in the calendar
C28_FirstInsertedTwice ==
    /\ call.op = "create_calendar_reminders"
    /\ HasDeadlineDate(1)
    /\ SimilarExisted(1)
    /\ Recorded(ret.created_events, call.emails[1].email_id)
    /\ ret.duplicate_events = << >>

\* the second email of a request was recorded as a duplicate of an event
\* that was in the calendar
C28_SecondIsDuplicate ==
    /\ call.op = "create_calendar_reminders"
    /\ Len(call.emails) = 2
    /\ HasDeadlineDate(2)
    /\ SimilarExisted(2)
    /\ Recorded(ret.duplicate_events, call.emails[2].email_id)
    /\ ~Recorded(ret.created_events, call.emails[2].email_id)

(***************************************************************************)
(* SpecAuth: the OAuth endpoints /auth/google and /auth/google/callback of *)
(* api_service.py.  Any browser may request either URL with any query      *)
(* string; the token endpoint of the provider grants or refuses a code.    *)
(***************************************************************************)
\* values of secrets.token_urlsafe(32)
StateTokens == {"s1", "s2"}

\* the `state` and `code` parameters of a callback; None_ when absent
StateArgs == StateTokens \cup { None_ }

CodeArgs == { "code1", None_ }

\* session[key] = value
SetKey(dict, key, value) ==
    [ k \in DOMAIN dict \cup { key } |-> IF k = key THEN value ELSE dict[k] ]

\* google_callback: [exchanged |-> whether the code was posted to the token
\* endpoint, session |-> the session after the request, response |-> the page]
google_callback(state, code, granted, sess) ==
    IF state # Get(sess, "oauth_state")
    THEN [ exchanged |-> FALSE, session |-> sess,
           response |-> "Invalid state parameter - possible CSRF attack" ]
    ELSE IF ~Truthy(code)
    THEN [ exchanged |-> FALSE, session |-> sess,
           response |-> "No authorization code received" ]
    ELSE IF ~granted
    THEN [ exchanged |-> TRUE, session |-> sess, response |-> "HTTPError" ]
    ELSE [ exchanged |-> TRUE,
           session |-> SetKey(sess, "credentials", code),
           response |-> "Authentication Successful!" ]

InitAuth ==
    /\ processed_email_ids = {}
    /\ now = SpecStart
    /\ calendar = {}
    /\ call = [op |-> "init"]
    /\ ret = NoneRec
    /\ issued = NoneIssued
    /\ threads = NoThreads
    /\ session = NoSessions

\* GET /auth/google
GoogleLogin ==
    \E b \in Browsers, state \in StateTokens :
        /\ session' = [session EXCEPT ![b] = SetKey(@, "oauth_state", state)]
        /\ call' = [op |-> "google_login", browser |-> b]
        /\ ret' = [redirect |-> "GOOGLE_AUTH_URL", state |-> state]
        /\ UNCHANGED <<processed_email_ids, now, calendar, issued, threads>>

\* GET /auth/google/callback
GoogleCallback ==
    \E b \in Browsers, state \in StateArgs, code \in CodeArgs, granted \in BOOLEAN :
      \E r \in { google_callback(state, code, granted, session[b]) } :
        /\ session' = [session EXCEPT ![b] = r.session]
        /\ call' = [ op |-> "google_callback", browser |-> b, state |-> state,
                     code |-> code, session_before |-> session[b],
                     exchanged |-> r.exchanged ]
        /\ ret' = [page |-> r.response]
        /\ UNCHANGED <<processed_email_ids, now, calendar, issued, threads>>

NextAuth == GoogleLogin \/ GoogleCallback

SpecAuth == InitAuth /\ [][NextAuth]_vars

(***************************************************************************)
(* C29                                                                     *)
(***************************************************************************)
\* C29: the callback posts an authorization code to the token endpoint only
\* if /auth/google issued a state in the same session before and the state
\* parameter of the callback equals it; a callback without state parameter
\* in a session without issued state is rejected before any exchange.
C29_ExchangeNeedsIssuedState ==
    (call.op = "google_callback" /\ call.exchanged)
        => /\ "oauth_state" \in DOMAIN call.session_before
           /\ call.session_before.oauth_state \in StateTokens
           /\ call.state = call.session_before.oauth_state

\* C29, what the code does: the code is posted only when the state parameter
\* equals session.get('oauth_state'), None on both sides included, and a
\* code is present; a callback whose state differs from the stored one
\* leaves the session as it was.
C29_ExchangeNeedsEqualState ==
    (call.op = "google_callback")
        => /\ call.exchanged
              <=> (call.state = Get(call.session_before, "oauth_state")
                   /\ call.code \notin {None_, ""})
           /\ call.state # Get(call.session_before, "oauth_state")
                => (session[call.browser] = call.session_before
                    /\ ret.page = "Invalid state parameter - possible CSRF attack")

\* a callback without state parameter, in a session in which no state was
\* issued, ended with credentials in that session
C29_ExchangedWithoutState ==
    /\ call.op = "google_callback"
    /\ call.session_before = << >>
    /\ call.state = None_
    /\ call.exchanged
    /\ "credentials" \in DOMAIN session[call.browser]

\* a callback with another state than the one issued in its session was
\* rejected
C29_WrongStateRejected ==
    /\ call.op = "google_callback"
    /\ Get(call.session_before, "oauth_state") \in StateTokens
    /\ call.state \in StateTokens
    /\ call.state # call.session_before.oauth_state
    /\ call.code = "code1"
    /\ ~call.exchanged

\* some event of the lookup's answer has the first 30 characters of the
\* subject in its title or description
SubjectMatches(calendar_service, email_data) ==
    /\ calendar_service # NoneRec
    /\ ~calendar_service.raises
    /\ \E i \in 1..Len(calendar_service.items) :
         EventMatchesSubject(calendar_service.items[i], email_data.subject)

\* C30: for a message without an id (no id, or an empty one) a call with a
\* calendar lookup ends as 'duplicate' only when an event of the answer has
\* the first 30 characters of the subject in its title or description
C30_NoIdDuplicateOnlyOnSubject ==
    (Invoked /\ LastId \in {None_, ""} /\ StatusOf(LastEvent) = "duplicate")
        => SubjectMatches(call.calendar_service, call.email_data)

\* C30 for a message that has no id at all: the call ends as 'duplicate'
\* only on a subject match
C30_AbsentIdDuplicateOnlyOnSubject ==
    (Invoked /\ LastId = None_ /\ StatusOf(LastEvent) = "duplicate")
        => SubjectMatches(call.calendar_service, call.email_data)

\* C30: a message with an empty id was reported a duplicate of an event that
\* carries the empty email_id of another id-less message, with no event of
\* the answer matching its subject
C30_DuplicateWithoutSubject ==
    /\ Invoked
    /\ LastId = ""
    /\ StatusOf(LastEvent) = "duplicate"
    /\ ~SubjectMatches(call.calendar_service, call.email_data)

====
